---- MODULE Spec2Model ----
(***************************************************************************)
(* A model of jgehrcke/ci-analysis (package cia).                          *)
(*                                                                         *)
(* Part A (specification Spec): the local build cache and the paginated    *)
(* fetch of cia/buildkite.py: load_all_builds, fetch_builds and            *)
(* fetch_builds._process_response_page, with cia/utils.py's                *)
(* load_pickle_file_if_exists and write_pickle_file.  One run of the       *)
(* program is one call of load_all_builds; runs follow each other against  *)
(* the same cache path while the CI provider lists new builds and time     *)
(* passes.                                                                 *)
(*                                                                         *)
(* Part B (specification RateSpec): cia/analysis.py's                      *)
(* calc_rolling_event_rate as a function of its four arguments.            *)
(*                                                                         *)
(* A build record is modelled by its `number`, the only field the cache    *)
(* and the fetch loop read (the pipeline slug is only logged).             *)
(***************************************************************************)
EXTENDS Integers, Sequences, FiniteSets, TLC

VARIABLES
    \* ---- the CI provider and the cache file (survive a run) ----
    upstream,           \* the provider's listing of finished builds, newest first
    per_page,           \* builds per response page (fixed by the client library)
    cache,              \* content of the pickle cache file, or NoCache
    cache_age_minutes,  \* minutes since the cache file was last written
    \* ---- one run of load_all_builds ----
    pc,                 \* position of the run
    builds_cached,      \* load_all_builds: what load_pickle_file_if_exists returned
    only_newer_than_build_number,   \* fetch_builds' parameter
    builds,             \* fetch_builds: the list being populated
    next_page,          \* builds_resp.next_page of the last response
    continue_fetching,  \* fetch_builds: result of the last _process_response_page
    returned,           \* what load_all_builds returned, or NoCache
    \* ---- history of the run (read by the properties only) ----
    runs,               \* number of runs started
    nReads,             \* reads of the cache file in this run
    nRequests,          \* page requests sent in this run
    nWrites,            \* calls of write_pickle_file in this run
    cacheAtStart,       \* the cache file when the run began
    listing0,           \* the provider's listing when the fetch sent its first request
    sawOld,             \* a processed page held a build <= only_newer_than_build_number
    reqPage,            \* page number named in the last request (0: none yet)
    ageAtStart,         \* cache_age_minutes when the run began
    \* ---- calc_rolling_event_rate ----
    series,                     \* the event timestamps (the Series' index), in seconds
    window_width_seconds,
    upsample_with_zeros,
    upsample_with_zeros_until,  \* a timestamp, or None
    rate_pc,                    \* "call" before the call, "done" after it
    rate_result,                \* outcome of the call
    \* ---- rewrite_build_objects, identify_top_n_step_keys ----
    builds_in,          \* the build dictionaries as the provider's API returned them
    norm_pc,            \* position: "rewrite", "rewritten", "identified", or the error raised
    builds_out,         \* what rewrite_build_objects returned
    step_key_counter,   \* identify_top_n_step_keys: step key -> number of jobs
    jobs_by_key,        \* identify_top_n_step_keys: step key -> list of jobs
    \* ---- parse_args and the start of main ----
    cfg_pc,             \* "parse_args", "sys.exit", the step of main that is next, or "Traceback"
    argv,               \* the command line: --ignore-builds-before, --output-directory
    output_directory,   \* what the output directory path points to in the file system
    exit_status,        \* <<>> while the process runs, <<code>> once it has exited
    fetched,            \* load_all_builds has been called (whatever it then did)
    cfg_error,          \* the exception that ended main
    cfg_builds,         \* main's builds_all
    \* ---- construct_df_for_builds, construct_df_for_jobs, PlotDuration ----
    frame_kind,         \* "builds" or "jobs": which of the two functions is called
    frame_records,      \* the build or job dictionaries handed to it
    frame_window,       \* PlotDuration: the rolling window width, in seconds
    frame_pc,           \* "construct", "plot", "done", or the error raised
    frame_df,           \* the dataframe returned
    frame_trend,        \* PlotDuration._plot_mpl_core: rolling mean and median
    \* ---- main, after rewrite_build_objects(load_all_builds(...)) ----
    args,               \* CFG().args: the three --ignore-builds-... options
    main_window_width_seconds,  \* 86400 * window_width_days of the rate and stability steps
    main_pc,            \* the step main is about to take, "exit0" or "Traceback"
    main_error,         \* the exception that ended main, and the function that raised it
    builds_all,         \* main's builds_all
    builds_passed,      \* main's builds_passed
    rolling_build_rate_all,     \* analyze_build_stability's series
    rolling_build_rate_passed,
    rolling_window_stability,
    global_x_limit,     \* plot._GLOBAL_X_LIMIT
    steps_done,         \* the steps main has completed, in order
    plots_for_subplots, \* buildkite._PLOTS_FOR_SUBPLOTS: the plots registered, in order
    summary_fig         \* <<>>, or <<panels>> once the multiplot summary is written

fileVars == <<cache, cache_age_minutes>>

fetchVars == <<builds, next_page, continue_fetching, sawOld, reqPage, nRequests>>

startVars == <<builds_cached, only_newer_than_build_number, runs, nReads,
               cacheAtStart, ageAtStart>>

cacheVars == <<upstream, per_page, fileVars, pc, fetchVars, startVars, returned,
               nWrites, listing0>>

rateVars == <<series, window_width_seconds, upsample_with_zeros,
              upsample_with_zeros_until, rate_pc, rate_result>>

normVars == <<builds_in, norm_pc, builds_out, step_key_counter, jobs_by_key>>

mainVars == <<args, main_window_width_seconds, main_pc, main_error, builds_all,
              builds_passed, rolling_build_rate_all, rolling_build_rate_passed,
              rolling_window_stability, global_x_limit, steps_done,
              plots_for_subplots, summary_fig>>

cfgVars == <<cfg_pc, argv, output_directory, exit_status, fetched, cfg_error, cfg_builds>>

frameVars == <<frame_kind, frame_records, frame_window, frame_pc, frame_df, frame_trend>>

pipelineVars == <<normVars, mainVars, cfgVars, frameVars>>

vars == <<cacheVars, rateVars, pipelineVars>>

(***************************************************************************)
(* Bounds of the model.                                                    *)
(***************************************************************************)
MaxBuilds == 4      \* builds the provider ever lists
MaxPerPage == 2     \* largest page size tried
MaxRuns == 3        \* runs of load_all_builds against one cache path
MaxAgeSteps == 3    \* the cache age is followed up to MaxAgeSteps * AgeStep minutes

NoCache == <<-1>>   \* Python's None: no cache file / nothing returned (no build list:
                    \* build numbers are positive)
NoPage == 0         \* builds_resp.next_page is None

(***************************************************************************)
(* Sequence helpers.                                                       *)
(***************************************************************************)
Range(s) == {s[i] : i \in DOMAIN s}

NoDuplicates(s) == \A i, j \in DOMAIN s : i # j => s[i] # s[j]

MaxOf(S) == CHOOSE x \in S : \A y \in S : y <= x

Min2(a, b) == IF a <= b THEN a ELSE b

(***************************************************************************)
(* The CI provider: BK_CLIENT.builds().list_all_for_pipeline(...,          *)
(* with_pagination=True).  Pages are addressed by number in the listing as *)
(* it is when the request arrives; the response names the next page while  *)
(* more builds follow.                                                     *)
(***************************************************************************)
PageBody(listing, page, size) ==
    SubSeq(listing, (page - 1) * size + 1, Min2(page * size, Len(listing)))

PageNext(listing, page, size) ==
    IF Len(listing) > page * size THEN page + 1 ELSE NoPage

(***************************************************************************)
(* fetch_builds._process_response_page: append the builds of the page that *)
(* are newer than the threshold, stop at the first one that is not.        *)
(***************************************************************************)
IsNewer_inclusive(number, threshold) == number >= threshold

IsNewer(number, threshold) == number > threshold

RECURSIVE NewBuildsOfPage(_, _)
NewBuildsOfPage(builds_cur_page, threshold) ==
    IF builds_cur_page = <<>> THEN <<>>
    ELSE IF IsNewer(Head(builds_cur_page), threshold)
         THEN <<Head(builds_cur_page)>> \o NewBuildsOfPage(Tail(builds_cur_page), threshold)
         ELSE <<>>

\* the value _process_response_page returns: False once a build is "too old"
process_response_page(builds_cur_page, threshold) ==
    Len(NewBuildsOfPage(builds_cur_page, threshold)) = Len(builds_cur_page)

\* the condition of fetch_builds' while loop
KeepFetching_ignoresStop(cont, np) == np # NoPage

KeepFetching(cont, np) == cont /\ np # NoPage

(***************************************************************************)
(* load_all_builds: the freshness test of the cache.                       *)
(***************************************************************************)
skip_if_newer_than_mins == 60

AgeStep == 30       \* minutes by which the model lets time pass

CacheIsFresh(age) == age < skip_if_newer_than_mins

(***************************************************************************)
(* Initial state: no run has started, there is no cache file, the provider *)
(* lists the builds n..1 for some n, newest first.                         *)
(***************************************************************************)
Listing(n) == [i \in 1..n |-> n + 1 - i]

NoRun ==
    /\ pc = "idle"
    /\ builds_cached = NoCache
    /\ only_newer_than_build_number = -1
    /\ builds = <<>>
    /\ next_page = NoPage
    /\ continue_fetching = FALSE
    /\ returned = NoCache
    /\ nReads = 0
    /\ nRequests = 0
    /\ nWrites = 0
    /\ cacheAtStart = NoCache
    /\ ageAtStart = 0
    /\ listing0 = <<>>
    /\ sawOld = FALSE
    /\ reqPage = 0

RateIdle ==
    /\ series = <<>>
    /\ window_width_seconds = 3600
    /\ upsample_with_zeros = FALSE
    /\ upsample_with_zeros_until = <<>>
    /\ rate_pc = "off"
    /\ rate_result = [status |-> "none", out |-> <<>>]

\* rewrite_build_objects and identify_top_n_step_keys are not called
NormIdle ==
    /\ builds_in = <<>>
    /\ norm_pc = "off"
    /\ builds_out = <<>>
    /\ step_key_counter = <<>>
    /\ jobs_by_key = <<>>

NoError == [type |-> "none", raised_in |-> "none"]

\* plot._GLOBAL_X_LIMIT = None
NoLimit == [kind |-> "null", lower |-> 0, upper |-> 0]

\* main is not running
MainIdle ==
    /\ args = [ignore_builds_before |-> <<>>, ignore_builds_shorter_than |-> <<>>,
               ignore_builds_longer_than |-> <<>>]
    /\ main_window_width_seconds = 345600
    /\ main_pc = "off"
    /\ main_error = NoError
    /\ builds_all = <<>>
    /\ builds_passed = <<>>
    /\ rolling_build_rate_all = <<>>
    /\ rolling_build_rate_passed = <<>>
    /\ rolling_window_stability = <<>>
    /\ global_x_limit = NoLimit
    /\ steps_done = <<>>
    /\ plots_for_subplots = <<>>
    /\ summary_fig = <<>>

\* parse_args is not called
CfgIdle ==
    /\ cfg_pc = "off"
    /\ argv = [ignore_builds_before |-> <<>>, output_directory |-> "report"]
    /\ output_directory = "absent"
    /\ exit_status = <<>>
    /\ fetched = FALSE
    /\ cfg_error = NoError
    /\ cfg_builds = <<>>

\* construct_df_for_builds / construct_df_for_jobs are not called on their own
NoFrame == [status |-> "none", index |-> <<>>, nat |-> 0, rows |-> <<>>]

NoTrend == [status |-> "none", mean |-> <<>>, median |-> <<>>]

FrameIdle ==
    /\ frame_kind = "builds"
    /\ frame_records = <<>>
    /\ frame_window = 3600
    /\ frame_pc = "off"
    /\ frame_df = NoFrame
    /\ frame_trend = NoTrend

PipelineIdle == NormIdle /\ MainIdle /\ CfgIdle /\ FrameIdle

Init ==
    /\ upstream \in {Listing(n) : n \in 0..2}
    /\ per_page \in 1..MaxPerPage
    /\ cache = NoCache
    /\ cache_age_minutes = 0
    /\ runs = 0
    /\ NoRun
    /\ RateIdle
    /\ PipelineIdle

(***************************************************************************)
(* The environment: the provider lists a new finished build; time passes.  *)
(***************************************************************************)
NewBuildUpstream ==
    /\ Len(upstream) < MaxBuilds
    /\ upstream' = <<Len(upstream) + 1>> \o upstream
    /\ UNCHANGED <<per_page, fileVars, pc, fetchVars, startVars, returned,
                   nWrites, listing0>>
    /\ UNCHANGED <<rateVars, pipelineVars>>

TimePasses ==
    /\ pc = "idle"
    /\ cache # NoCache
    /\ cache_age_minutes < MaxAgeSteps * AgeStep
    /\ cache_age_minutes' = cache_age_minutes + AgeStep
    /\ UNCHANGED <<upstream, per_page, cache, pc, fetchVars, startVars, returned,
                   nWrites, listing0>>
    /\ UNCHANGED <<rateVars, pipelineVars>>

(***************************************************************************)
(* load_all_builds, up to the first request: load_pickle_file_if_exists    *)
(* reads the cache file if it exists (and nothing if it does not), then    *)
(*   no cache         -> fetch everything (threshold -1)                   *)
(*   fresh cache      -> return builds_cached                              *)
(*   stale cache      -> fetch the builds newer than builds_cached[0];     *)
(*                       builds_cached[0] of an empty list is an           *)
(*                       IndexError, which ends the run.                   *)
(***************************************************************************)
LoadCache ==
    /\ pc = "idle"
    /\ runs < MaxRuns
    /\ runs' = runs + 1
    /\ nReads' = IF cache = NoCache THEN nReads ELSE nReads + 1
    /\ builds_cached' = cache
    /\ cacheAtStart' = cache
    /\ ageAtStart' = cache_age_minutes
    /\ IF cache = NoCache
       THEN /\ pc' = "fetch"
            /\ only_newer_than_build_number' = -1
            /\ returned' = NoCache
       ELSE IF CacheIsFresh(cache_age_minutes)
       THEN /\ pc' = "returned"
            /\ returned' = cache
            /\ UNCHANGED only_newer_than_build_number
       ELSE IF cache = <<>>
       THEN /\ pc' = "IndexError"
            /\ returned' = NoCache
            /\ UNCHANGED only_newer_than_build_number
       ELSE /\ pc' = "fetch"
            /\ only_newer_than_build_number' = cache[1]
            /\ returned' = NoCache
    /\ UNCHANGED <<upstream, per_page, fileVars, fetchVars, nWrites, listing0>>
    /\ UNCHANGED <<rateVars, pipelineVars>>

(***************************************************************************)
(* fetch_builds: one page request and the processing of its response.      *)
(***************************************************************************)
ProcessResponse(page) ==
    LET body == PageBody(upstream, page, per_page)
    IN  /\ builds' = builds \o NewBuildsOfPage(body, only_newer_than_build_number)
        /\ continue_fetching' = process_response_page(body, only_newer_than_build_number)
        /\ next_page' = PageNext(upstream, page, per_page)
        /\ sawOld' = (sawOld \/ \E i \in DOMAIN body :
                                    body[i] <= only_newer_than_build_number)
        /\ reqPage' = page
        /\ nRequests' = nRequests + 1

FetchFirstPage ==
    /\ pc = "fetch"
    /\ pc' = "fetching"
    /\ listing0' = upstream
    /\ ProcessResponse(1)
    /\ UNCHANGED <<upstream, per_page, fileVars, startVars, returned, nWrites>>
    /\ UNCHANGED <<rateVars, pipelineVars>>

FetchNextPage ==
    /\ pc = "fetching"
    /\ KeepFetching(continue_fetching, next_page)
    /\ ProcessResponse(next_page)
    /\ UNCHANGED <<upstream, per_page, fileVars, pc, startVars, returned, nWrites,
                   listing0>>
    /\ UNCHANGED <<rateVars, pipelineVars>>

\* The request raises (network failure): nothing catches it, the run ends.
FetchFails_persistsPartial ==
    /\ \/ pc = "fetch"
       \/ pc = "fetching" /\ KeepFetching(continue_fetching, next_page)
    /\ pc' = "failed"
    /\ nRequests' = nRequests + 1
    /\ reqPage' = IF pc = "fetch" THEN 1 ELSE next_page
    /\ cache' = IF builds_cached = NoCache THEN builds ELSE builds_cached \o builds
    /\ UNCHANGED <<upstream, per_page, cache_age_minutes, builds, next_page,
                   continue_fetching, sawOld, startVars, returned, nWrites, listing0>>
    /\ UNCHANGED <<rateVars, pipelineVars>>

FetchFails ==
    /\ \/ pc = "fetch"
       \/ pc = "fetching" /\ KeepFetching(continue_fetching, next_page)
    /\ pc' = "failed"
    /\ nRequests' = nRequests + 1
    /\ reqPage' = IF pc = "fetch" THEN 1 ELSE next_page
    /\ UNCHANGED <<upstream, per_page, fileVars, builds, next_page,
                   continue_fetching, sawOld, startVars, returned, nWrites, listing0>>
    /\ UNCHANGED <<rateVars, pipelineVars>>

(***************************************************************************)
(* fetch_builds has returned; load_all_builds persists and returns:        *)
(*   no cache before  -> write and return the fetched builds               *)
(*   stale cache      -> builds_cached.extend(new_builds), write, return   *)
(***************************************************************************)
FetchReturned_early == pc = "fetching"

FetchReturned == pc = "fetching" /\ ~KeepFetching(continue_fetching, next_page)

MergeIntoCache(cached, new_builds) ==
    IF cached = NoCache THEN new_builds ELSE cached \o new_builds

Persist ==
    /\ FetchReturned
    /\ pc' = "returned"
    /\ cache' = MergeIntoCache(builds_cached, builds)
    /\ returned' = MergeIntoCache(builds_cached, builds)
    /\ cache_age_minutes' = 0
    /\ nWrites' = nWrites + 1
    /\ UNCHANGED <<upstream, per_page, fetchVars, startVars, listing0>>
    /\ UNCHANGED <<rateVars, pipelineVars>>

\* The process ends; the next run starts from the cache file alone.
Exit ==
    /\ pc \in {"returned", "failed", "IndexError"}
    /\ pc' = "idle"
    /\ builds_cached' = NoCache
    /\ only_newer_than_build_number' = -1
    /\ builds' = <<>>
    /\ next_page' = NoPage
    /\ continue_fetching' = FALSE
    /\ returned' = NoCache
    /\ nReads' = 0
    /\ nRequests' = 0
    /\ nWrites' = 0
    /\ cacheAtStart' = NoCache
    /\ ageAtStart' = 0
    /\ listing0' = <<>>
    /\ sawOld' = FALSE
    /\ reqPage' = 0
    /\ UNCHANGED <<upstream, per_page, fileVars, runs>>
    /\ UNCHANGED <<rateVars, pipelineVars>>

Next ==
    \/ NewBuildUpstream
    \/ TimePasses
    \/ LoadCache
    \/ FetchFirstPage
    \/ FetchNextPage
    \/ FetchFails
    \/ Persist
    \/ Exit

Spec == Init /\ [][Next]_vars

(***************************************************************************)
(* Part B: calc_rolling_event_rate (cia/analysis.py).                      *)
(*                                                                         *)
(* Time is in seconds since a midnight.  A timestamp-indexed pandas Series *)
(* is a sequence of samples [t |-> timestamp, v |-> value], in index       *)
(* order.  An optional timestamp is <<>> (None, NaT) or <<t>>.  The input  *)
(* `series` is given by its index alone (its values are never read).       *)
(***************************************************************************)
n_minute_bins == 60

BinSeconds == n_minute_bins * 60

MaxEvents == 3      \* events in the input series
MaxSlots == 5       \* input timestamps are 0, 1800, ..., MaxSlots * 1800

Times == {k * 1800 : k \in 0..MaxSlots}

\* the window widths tried: below, at and above the bin width; all even, so
\* that the half width is a whole number of seconds
Widths == {900, 1800, 3600, 5400, 7200}

RECURSIVE SumSeq(_)
SumSeq(s) == IF s = <<>> THEN 0 ELSE Head(s) + SumSeq(Tail(s))

RECURSIVE SortedSeq(_)
SortedSeq(S) ==
    IF S = {} THEN <<>>
    ELSE LET m == CHOOSE x \in S : \A y \in S : x <= y
         IN  <<m>> \o SortedSeq(S \ {m})

Values(e) == [i \in DOMAIN e |-> e[i].v]

Index(e) == [i \in DOMAIN e |-> e[i].t]

\* Index.max(): NaT for an empty index
IndexMax(idx) == IF idx = <<>> THEN <<>> ELSE <<MaxOf(Range(idx))>>

\* series.groupby(series.index).size(): one sample per distinct timestamp, in
\* ascending order, holding the number of events at that timestamp
GroupBySize(idx) ==
    LET keys == SortedSeq(Range(idx))
    IN  [i \in DOMAIN keys |->
            [t |-> keys[i], v |-> Cardinality({j \in DOMAIN idx : idx[j] = keys[i]})]]

BinOf(t) == (t \div BinSeconds) * BinSeconds

\* e.resample("60min").sum(): one sample per 60-minute bin from the bin of the
\* first sample to the bin of the last one, every bin in between included (an
\* empty bin sums to 0); an empty series stays empty
Resample(e) ==
    IF e = <<>> THEN <<>>
    ELSE LET first == BinOf(e[1].t)
             last == BinOf(e[Len(e)].t)
         IN  [k \in 1..((last - first) \div BinSeconds + 1) |->
                LET bin == first + (k - 1) * BinSeconds
                IN  [t |-> bin,
                     v |-> SumSeq(Values(SelectSeq(e, LAMBDA x : BinOf(x.t) = bin)))]]

\* pd.date_range(start, end, freq="60min"): start, start + 60min, ... up to end
DateRange_pastEnd(start, end) ==
    IF start > end THEN <<>>
    ELSE [k \in 1..((end - start) \div BinSeconds + 2) |-> start + (k - 1) * BinSeconds]

DateRange(start, end) ==
    IF start > end THEN <<>>
    ELSE [k \in 1..((end - start) \div BinSeconds + 1) |-> start + (k - 1) * BinSeconds]

\* e.asfreq("60min", fill_value=0): reindex to the 60-minute grid that starts at
\* the first timestamp and ends at or before the last one; a grid point that
\* has no sample gets 0, a sample off the grid is dropped
AsFreq(e) ==
    IF e = <<>> THEN <<>>
    ELSE LET grid == DateRange(e[1].t, e[Len(e)].t)
         IN  [k \in DOMAIN grid |->
                [t |-> grid[k],
                 v |-> SumSeq(Values(SelectSeq(e, LAMBDA x : x.t = grid[k])))]]

\* the three-way test on upsample_with_zeros_until (lines 77-93); a comparison
\* with NaT (the empty input's index.max()) is False, which selects the else
\* branch
UntilCase_inverted(idx, until) ==
    IF idx # <<>> /\ IndexMax(idx)[1] = until THEN "skip"
    ELSE IF idx # <<>> /\ IndexMax(idx)[1] < until THEN "raise"
    ELSE "extend"

UntilCase(idx, until) ==
    IF idx # <<>> /\ IndexMax(idx)[1] = until THEN "skip"
    ELSE IF idx # <<>> /\ IndexMax(idx)[1] > until THEN "raise"
    ELSE "extend"

\* the event count series after binning and, if asked for, zero-upsampling
\* (lines 52-108); only called when UntilCase does not raise
EventCounts(idx, zeros, until) ==
    LET e == Resample(GroupBySize(idx))
    IN  IF ~zeros THEN e
        ELSE IF until # <<>> /\ UntilCase(idx, until[1]) = "extend"
             THEN AsFreq(e \o <<[t |-> until[1], v |-> 0]>>)
             ELSE AsFreq(e)

\* e.rolling(window="<W>S", min_periods=1).sum(): at each sample, the sum over
\* the samples in (t - W, t]
RollingSum_closedLeft(e, W) ==
    [i \in DOMAIN e |->
        [t |-> e[i].t,
         v |-> SumSeq(Values(SelectSeq(e, LAMBDA x : e[i].t - W <= x.t /\ x.t <= e[i].t)))]]

RollingSum(e, W) ==
    [i \in DOMAIN e |->
        [t |-> e[i].t,
         v |-> SumSeq(Values(SelectSeq(e, LAMBDA x : e[i].t - W < x.t /\ x.t <= e[i].t)))]]

RECURSIVE GCD(_, _)
GCD(a, b) == IF b = 0 THEN a ELSE GCD(b, a % b)

\* the float n / d of two integers (n >= 0, d > 0), kept exact as a fraction
\* in lowest terms: 24.0 is [num |-> 24, den |-> 1], 0.25 is [num |-> 1,
\* den |-> 4]
Float(n, d) == [num |-> n \div GCD(n, d), den |-> d \div GCD(n, d)]

\* 86400 * s / float(window_width_seconds), index shifted left by half the
\* window width (lines 128-147)
RateCentered_unshifted(s, W) ==
    [i \in DOMAIN s |-> [t |-> s[i].t, v |-> Float(86400 * s[i].v, W)]]

RateCentered(s, W) ==
    [i \in DOMAIN s |-> [t |-> s[i].t - W \div 2, v |-> Float(86400 * s[i].v, W)]]

\* rolling_event_rate_d[int(window_width_seconds / (n_minute_bins * 60)):]
Trimmed_keepsAll(r, W) == r

Trimmed(r, W) == SubSeq(r, W \div BinSeconds + 1, Len(r))

\* the appendix: the last value, repeated on the 60-minute grid from the last
\* timestamp of the trimmed series up to the newest data point (lines 168-177)
ForwardFill_zero(r, newest) ==
    LET apdx_index == DateRange(r[Len(r)].t, newest)
    IN  [k \in DOMAIN apdx_index |-> [t |-> apdx_index[k], v |-> Float(0, 1)]]

ForwardFill(r, newest) ==
    LET apdx_index == DateRange(r[Len(r)].t, newest)
    IN  [k \in DOMAIN apdx_index |-> [t |-> apdx_index[k], v |-> r[Len(r)].v]]

\* index + pd.to_timedelta("1 sec")
ShiftOneSecond(r) == [i \in DOMAIN r |-> [t |-> r[i].t + 1, v |-> r[i].v]]

\* The call: what it raises, or the series it returns.
calc_rolling_event_rate(idx, W, zeros, until) ==
    IF zeros /\ until # <<>> /\ UntilCase(idx, until[1]) = "raise"
    THEN [status |-> "Exception", out |-> <<>>]
    ELSE LET e == EventCounts(idx, zeros, until)
             rolling_event_rate_d == Trimmed(RateCentered(RollingSum(e, W), W), W)
         IN  IF rolling_event_rate_d = <<>>
             THEN [status |-> "IndexError", out |-> <<>>]
             ELSE [status |-> "ok",
                   out |-> ShiftOneSecond(
                        rolling_event_rate_d
                        \o ForwardFill(rolling_event_rate_d, e[Len(e)].t))]

(***************************************************************************)
(* Specification RateSpec: the arguments are drawn from the bounded sets,  *)
(* then the function is called once.                                       *)
(***************************************************************************)
SortedSeqsUpTo(n) ==
    UNION {{s \in [1..k -> Times] : \A i \in 1..(k - 1) : s[i] <= s[i + 1]} : k \in 0..n}

CacheIdle ==
    /\ upstream = <<>>
    /\ per_page = 1
    /\ cache = NoCache
    /\ cache_age_minutes = 0
    /\ runs = 0
    /\ NoRun

RateInit ==
    /\ series \in SortedSeqsUpTo(MaxEvents)
    /\ window_width_seconds \in Widths
    /\ upsample_with_zeros \in BOOLEAN
    /\ upsample_with_zeros_until \in {<<>>} \cup {<<t>> : t \in Times}
    /\ rate_pc = "call"
    /\ rate_result = [status |-> "none", out |-> <<>>]
    /\ CacheIdle
    /\ PipelineIdle

CallRate ==
    /\ rate_pc = "call"
    /\ rate_pc' = "done"
    /\ rate_result' = calc_rolling_event_rate(series, window_width_seconds,
                                              upsample_with_zeros,
                                              upsample_with_zeros_until)
    /\ UNCHANGED <<series, window_width_seconds, upsample_with_zeros,
                   upsample_with_zeros_until>>
    /\ UNCHANGED <<cacheVars, pipelineVars>>

RateNext == CallRate

RateSpec == RateInit /\ [][RateNext]_vars

(***************************************************************************)
(* Specification TrainSpec: the same call, on an input of events that are  *)
(* uniformly spaced: events_per_window events per window width, the first  *)
(* at one of TrainStarts.                                                  *)
(***************************************************************************)
MaxTrain == 6           \* events in a uniformly spaced input
MaxPerWindow == 4       \* events per window width tried

TrainStarts == {0, 900, 1800, 2700}

Train(t0, spacing, m) == [j \in 1..m |-> t0 + (j - 1) * spacing]

TrainInit ==
    /\ \E t0 \in TrainStarts, n \in 1..MaxPerWindow, m \in 1..MaxTrain, W \in Widths :
            /\ W % n = 0
            /\ window_width_seconds = W
            /\ series = Train(t0, W \div n, m)
    /\ upsample_with_zeros \in BOOLEAN
    /\ upsample_with_zeros_until = <<>>
    /\ rate_pc = "call"
    /\ rate_result = [status |-> "none", out |-> <<>>]
    /\ CacheIdle
    /\ PipelineIdle

TrainSpec == TrainInit /\ [][RateNext]_vars

(***************************************************************************)
(* Part C: rewrite_build_objects and identify_top_n_step_keys              *)
(* (cia/buildkite.py).                                                     *)
(*                                                                         *)
(* A value of a build or job dictionary is [kind, val]:                    *)
(*   "missing"   the dictionary has no such key                            *)
(*   "null"      None                                                      *)
(*   "str"       a Zulu-suffixed ISO-8601 string; val: the instant, in s   *)
(*   "datetime"  a datetime object; val: the instant, in s                 *)
(*   "num"       a number                                                  *)
(* A step key is [kind, val] with val the key's text.                      *)
(***************************************************************************)
Missing == [kind |-> "missing", val |-> 0]

Null == [kind |-> "null", val |-> 0]

Str(t) == [kind |-> "str", val |-> t]

Datetime(t) == [kind |-> "datetime", val |-> t]

Num(n) == [kind |-> "num", val |-> n]

KeyMissing == [kind |-> "missing", val |-> ""]

KeyNull == [kind |-> "null", val |-> ""]

Key(name) == [kind |-> "str", val |-> name]

dtprops == <<"created_at", "started_at", "scheduled_at", "finished_at">>

\* datetime.fromisoformat(x.replace("Z", "+00:00")) inside try/except
\* AttributeError: a string becomes the datetime of the same instant; None has
\* no .replace (AttributeError, caught: the value stays None)
fromisoformat(x) == IF x.kind = "str" THEN Datetime(x.val) ELSE x

\* the exception that leaves the loop over dtprops: d[dtprop] of a missing key
\* is a KeyError, datetime.replace("Z", "+00:00") is a TypeError; neither is
\* caught
FirstError(d) ==
    LET bad == {i \in DOMAIN dtprops : d[dtprops[i]].kind \in {"missing", "datetime"}}
    IN  IF bad = {} THEN "none"
        ELSE LET i == CHOOSE x \in bad : \A y \in bad : x <= y
             IN  IF d[dtprops[i]].kind = "missing" THEN "KeyError" ELSE "TypeError"

RewriteTimestamps(d) ==
    [d EXCEPT !.created_at = fromisoformat(@),
              !.started_at = fromisoformat(@),
              !.scheduled_at = fromisoformat(@),
              !.finished_at = fromisoformat(@)]

\* (finished_at - started_at).total_seconds() inside try/except TypeError
DurationSeconds_zeroForNull(finished_at, started_at) ==
    IF finished_at.kind = "datetime" /\ started_at.kind = "datetime"
    THEN Num(finished_at.val - started_at.val)
    ELSE Num(0)

DurationSeconds(finished_at, started_at) ==
    IF finished_at.kind = "datetime" /\ started_at.kind = "datetime"
    THEN Num(finished_at.val - started_at.val)
    ELSE Null

\* the body of the loop over b["jobs"]
rewrite_job(j) ==
    IF j.type = "waiter" THEN j
    ELSE LET parsed == RewriteTimestamps([j EXCEPT !.build_number = Num(1)])
         IN  [parsed EXCEPT !.duration_seconds =
                    DurationSeconds(parsed.finished_at, parsed.started_at)]

JobError(j) == IF j.type = "waiter" THEN "none" ELSE FirstError(j)

\* the body of the loop over builds
rewrite_build(b) ==
    LET parsed == RewriteTimestamps(b)
    IN  [parsed EXCEPT
            !.duration_seconds = DurationSeconds(parsed.finished_at, parsed.started_at),
            !.jobs = [i \in DOMAIN b.jobs |-> rewrite_job(b.jobs[i])]]

BuildError(b) ==
    IF FirstError(b) # "none" THEN FirstError(b)
    ELSE LET bad == {i \in DOMAIN b.jobs : JobError(b.jobs[i]) # "none"}
         IN  IF bad = {} THEN "none"
             ELSE JobError(b.jobs[CHOOSE x \in bad : \A y \in bad : x <= y])

\* The call: the exception it raises, or the list it returns.
rewrite_build_objects(bs) ==
    LET bad == {i \in DOMAIN bs : BuildError(bs[i]) # "none"}
    IN  IF bad = {}
        THEN [status |-> "ok", builds |-> [i \in DOMAIN bs |-> rewrite_build(bs[i])]]
        ELSE [status |-> BuildError(bs[CHOOSE x \in bad : \A y \in bad : x <= y]),
              builds |-> <<>>]

(***************************************************************************)
(* identify_top_n_step_keys: the loop over all jobs of all builds fills    *)
(* jobs_by_key (a defaultdict(list)) and step_keys; the Counter is built   *)
(* from step_keys.  The markdown table of the top_n keys is printed, it    *)
(* is no part of what is returned.                                         *)
(***************************************************************************)
RECURSIVE AllJobs(_)
AllJobs(bs) == IF bs = <<>> THEN <<>> ELSE Head(bs).jobs \o AllJobs(Tail(bs))

\* neither `not "step_key" in job` nor `job["step_key"] is None`
HasStepKey_countsNull(job) == job.step_key.kind # "missing"

HasStepKey(job) == job.step_key.kind = "str"

\* jobs_by_key[job["step_key"]].append(job)
AppendToKey(d, k, job) ==
    IF k \in DOMAIN d THEN [d EXCEPT ![k] = Append(@, job)] ELSE d @@ (k :> <<job>>)

RECURSIVE CollectJobs(_, _)
CollectJobs(jobs, acc) ==
    IF jobs = <<>> THEN acc
    ELSE LET job == Head(jobs)
         IN  IF HasStepKey(job)
             THEN CollectJobs(Tail(jobs),
                        [jobs_by_key |-> AppendToKey(acc.jobs_by_key, job.step_key.val, job),
                         step_keys |-> Append(acc.step_keys, job.step_key.val)])
             ELSE CollectJobs(Tail(jobs), acc)

\* collections.Counter(step_keys)
Counter(keys) ==
    [k \in Range(keys) |-> Cardinality({i \in DOMAIN keys : keys[i] = k})]

\* the keys of Counter(keys), in the order a Counter keeps them: that of their
\* first occurrence
KeyOrder(keys) ==
    LET firsts == {i \in DOMAIN keys : \A j \in 1..(i - 1) : keys[j] # keys[i]}
    IN  [k \in 1..Cardinality(firsts) |-> keys[SortedSeq(firsts)[k]]]

\* Counter.most_common(n): the n keys with the greatest counts, from the
\* greatest count down, keys of equal count in the order of the Counter
RECURSIVE most_common(_, _, _)
most_common(counter, order, n) ==
    IF n = 0 \/ order = <<>> THEN <<>>
    ELSE LET best == CHOOSE i \in DOMAIN order :
                        \A j \in DOMAIN order :
                            \/ counter[order[i]] > counter[order[j]]
                            \/ counter[order[i]] = counter[order[j]] /\ i <= j
         IN  <<order[best]>>
                \o most_common(counter, SelectSeq(order, LAMBDA k : k # order[best]), n - 1)

identify_top_n_step_keys(bs) ==
    LET acc == CollectJobs(AllJobs(bs), [jobs_by_key |-> <<>>, step_keys |-> <<>>])
    IN  [step_key_counter |-> Counter(acc.step_keys), jobs_by_key |-> acc.jobs_by_key,
         key_order |-> KeyOrder(acc.step_keys)]

(***************************************************************************)
(* The inputs: build and job dictionaries as the API returns them.         *)
(***************************************************************************)
MaxBuildNumber == 2     \* build numbers are 1..MaxBuildNumber
MaxJobs == 3            \* jobs of a build in KeySpec

RawBuild(n, st, js) ==
    [number |-> n, state |-> "passed",
     created_at |-> st.created_at, started_at |-> st.started_at,
     scheduled_at |-> st.scheduled_at, finished_at |-> st.finished_at,
     duration_seconds |-> Missing, jobs |-> js]

RawJob(type, st, key) ==
    [type |-> type,
     created_at |-> st.created_at, started_at |-> st.started_at,
     scheduled_at |-> st.scheduled_at, finished_at |-> st.finished_at,
     step_key |-> key, duration_seconds |-> Missing, build_number |-> Missing]

\* the timestamps of a build: every key present as a string, null or missing
BuildStamps ==
    [created_at : {Str(0), Null, Missing},
     scheduled_at : {Str(30), Null, Missing},
     started_at : {Str(60), Null, Missing},
     finished_at : {Str(60), Str(360), Null, Missing}]

CompleteStamps ==
    [created_at |-> Str(0), scheduled_at |-> Str(30),
     started_at |-> Str(60), finished_at |-> Str(360)]

NoStamps ==
    [created_at |-> Missing, scheduled_at |-> Missing,
     started_at |-> Missing, finished_at |-> Missing]

\* the timestamps of a script job
JobStamps ==
    [created_at : {Str(0)},
     scheduled_at : {Str(30)},
     started_at : {Str(90), Null},
     finished_at : {Str(210), Null, Missing}]

\* a script job of the step "build"; a waiter job ({'id': ..., 'type': 'waiter'});
\* a manual (block step) job, which has no timestamps either
NormJobs ==
    {RawJob("script", st, Key("build")) : st \in JobStamps}
        \cup {RawJob("waiter", NoStamps, KeyMissing), RawJob("manual", NoStamps, KeyMissing)}

SeqsUpTo2(S) == {<<>>} \cup {<<x>> : x \in S} \cup {<<x, y>> : x, y \in S}

OlderBuilds(n) ==
    {RawBuild(n, st, js) :
        st \in {CompleteStamps,
                [CompleteStamps EXCEPT !.started_at = Null],
                [CompleteStamps EXCEPT !.finished_at = Missing]},
        js \in {<<>>, <<RawJob("script", CompleteStamps, Key("build"))>>}}

\* one or two builds, newest first: the newest with any timestamps and up to
\* two jobs, the older one from OlderBuilds
NormInputs(n) ==
    LET Newest == {RawBuild(n, st, js) : st \in BuildStamps, js \in SeqsUpTo2(NormJobs)}
    IN  {<<b>> : b \in Newest}
            \cup (IF n >= 2 THEN {<<b, o>> : b \in Newest, o \in OlderBuilds(n - 1)}
                  ELSE {})

NormInit ==
    /\ \E n \in 1..MaxBuildNumber : builds_in \in NormInputs(n)
    /\ norm_pc = "rewrite"
    /\ builds_out = <<>>
    /\ step_key_counter = <<>>
    /\ jobs_by_key = <<>>
    /\ CacheIdle
    /\ RateIdle
    /\ MainIdle
    /\ CfgIdle
    /\ FrameIdle

\* main: rewrite_build_objects(load_all_builds(...))
RewriteBuildObjects ==
    /\ norm_pc = "rewrite"
    /\ LET r == rewrite_build_objects(builds_in)
       IN  /\ norm_pc' = IF r.status = "ok" THEN "rewritten" ELSE r.status
           /\ builds_out' = r.builds
    /\ UNCHANGED <<builds_in, step_key_counter, jobs_by_key>>
    /\ UNCHANGED <<cacheVars, rateVars, mainVars, cfgVars, frameVars>>

\* analyze_passed_builds: identify_top_n_step_keys(builds, 7)
IdentifyTopNStepKeys ==
    /\ norm_pc = "rewritten"
    /\ norm_pc' = "identified"
    /\ LET r == identify_top_n_step_keys(builds_out)
       IN  /\ step_key_counter' = r.step_key_counter
           /\ jobs_by_key' = r.jobs_by_key
    /\ UNCHANGED <<builds_in, builds_out>>
    /\ UNCHANGED <<cacheVars, rateVars, mainVars, cfgVars, frameVars>>

NormNext == RewriteBuildObjects \/ IdentifyTopNStepKeys

NormSpec == NormInit /\ [][NormNext]_vars

(***************************************************************************)
(* Specification KeySpec: the same two calls on builds whose jobs differ   *)
(* in their step keys: none, null, "build", "test".                        *)
(***************************************************************************)
KeyJobs ==
    {RawJob("script", CompleteStamps, k) :
            k \in {KeyMissing, KeyNull, Key("build"), Key("test")}}
        \cup {RawJob("script", [CompleteStamps EXCEPT !.finished_at = Null], Key("build")),
              RawJob("waiter", NoStamps, KeyMissing)}

JobLists(n) == UNION {[1..k -> KeyJobs] : k \in 0..n}

\* one or two builds, newest first: the newest with up to MaxJobs jobs, the
\* older one with at most one
KeyInputs(n) ==
    {<<RawBuild(n, CompleteStamps, js)>> : js \in JobLists(MaxJobs)}
        \cup (IF n >= 2
              THEN {<<RawBuild(n, CompleteStamps, js), RawBuild(n - 1, CompleteStamps, os)>> :
                        js \in JobLists(MaxJobs), os \in JobLists(1)}
              ELSE {})

KeyInit ==
    /\ \E n \in 1..MaxBuildNumber : builds_in \in KeyInputs(n)
    /\ norm_pc = "rewrite"
    /\ builds_out = <<>>
    /\ step_key_counter = <<>>
    /\ jobs_by_key = <<>>
    /\ CacheIdle
    /\ RateIdle
    /\ MainIdle
    /\ CfgIdle
    /\ FrameIdle

KeySpec == KeyInit /\ [][NormNext]_vars

(***************************************************************************)
(* Part D (specification MainSpec): main of cia/buildkite.py from the      *)
(* point where rewrite_build_objects(load_all_builds(...)) has returned.   *)
(* Each step of main is one action; an exception raised in a step is       *)
(* caught nowhere, so it ends the process with a traceback.  The          *)
(* timestamps of the builds are whole seconds, which index.round("S")      *)
(* leaves as they are.  The calls into matplotlib are taken to succeed.    *)
(***************************************************************************)
\* `if CFG().args.<option>:` for an int option: None and 0 are false
IsSet(opt) == opt # <<>> /\ opt[1] # 0

\* cia/filter.py: the list comprehension compares b["finished_at"] with the
\* date; None >= datetime is a TypeError
filter_builds_based_on_build_time(bs, a) ==
    IF a.ignore_builds_before = <<>> THEN [status |-> "ok", builds |-> bs]
    ELSE IF \E i \in DOMAIN bs : bs[i].finished_at.kind # "datetime"
    THEN [status |-> "TypeError", builds |-> <<>>]
    ELSE [status |-> "ok",
          builds |-> SelectSeq(bs, LAMBDA b : b.finished_at.val >= a.ignore_builds_before[1])]

\* cia/filter.py: b["duration_seconds"] >= N and <= N; None >= int is a
\* TypeError
IgnoreShorterThan(bs, opt) ==
    IF ~IsSet(opt) THEN [status |-> "ok", builds |-> bs]
    ELSE IF \E i \in DOMAIN bs : bs[i].duration_seconds.kind # "num"
    THEN [status |-> "TypeError", builds |-> <<>>]
    ELSE [status |-> "ok",
          builds |-> SelectSeq(bs, LAMBDA b : b.duration_seconds.val >= opt[1])]

IgnoreLongerThan(bs, opt) ==
    IF ~IsSet(opt) THEN [status |-> "ok", builds |-> bs]
    ELSE IF \E i \in DOMAIN bs : bs[i].duration_seconds.kind # "num"
    THEN [status |-> "TypeError", builds |-> <<>>]
    ELSE [status |-> "ok",
          builds |-> SelectSeq(bs, LAMBDA b : b.duration_seconds.val <= opt[1])]

filter_builds_based_on_duration(bs, a) ==
    LET kept == IgnoreShorterThan(bs, a.ignore_builds_shorter_than)
    IN  IF kept.status # "ok" THEN kept
        ELSE IgnoreLongerThan(kept.builds, a.ignore_builds_longer_than)

filter_builds_passed(bs) == SelectSeq(bs, LAMBDA b : b.state = "passed")

\* bfilter.filter_builds_passed(bfilter.filter_builds_based_on_duration(builds_all))
PassedBuilds(bs, a) ==
    LET kept == filter_builds_based_on_duration(bs, a)
    IN  IF kept.status # "ok" THEN kept
        ELSE [status |-> "ok", builds |-> filter_builds_passed(kept.builds)]

RECURSIVE SortAsc(_)
SortAsc(s) ==
    IF s = <<>> THEN <<>>
    ELSE LET m == CHOOSE x \in Range(s) : \A y \in Range(s) : x <= y
         IN  SelectSeq(s, LAMBDA x : x = m) \o SortAsc(SelectSeq(s, LAMBDA x : x # m))

\* pd.Timestamp(b["started_at"]): <<t>>, or <<>> (NaT) for None
IndexValue(started_at) == IF started_at.kind = "datetime" THEN <<started_at.val>> ELSE <<>>

\* df.sort_index(): the rows from past to future, the rows whose index value
\* is NaT at the end
RECURSIVE SortIndex(_)
SortIndex(rows) ==
    LET timed == SelectSeq(rows, LAMBDA r : r.index # <<>>)
    IN  IF timed = <<>> THEN rows
        ELSE LET m == CHOOSE r \in Range(timed) :
                        \A q \in Range(timed) : r.index[1] <= q.index[1]
             IN  SelectSeq(rows, LAMBDA r : r.index = m.index)
                    \o SortIndex(SelectSeq(rows, LAMBDA r : r.index # m.index))

\* construct_df_for_builds: one row for every build, the start times from
\* past to future as the index, with the NaT of the builds that never started
\* at the end (nat of them).  For an empty list the index is a plain Index,
\* which has no round(): AttributeError.
construct_df_for_builds(bs) ==
    IF bs = <<>>
    THEN [status |-> "AttributeError", index |-> <<>>, nat |-> 0, rows |-> <<>>]
    ELSE LET started == SelectSeq(bs, LAMBDA b : b.started_at.kind = "datetime")
         IN  [status |-> "ok",
              index |-> SortAsc([i \in DOMAIN started |-> started[i].started_at.val]),
              nat |-> Len(bs) - Len(started),
              rows |-> SortIndex([i \in DOMAIN bs |->
                            [index |-> IndexValue(bs[i].started_at),
                             build_number |-> Num(bs[i].number),
                             duration_seconds |-> bs[i].duration_seconds]])]

\* set_common_x_limit_for_plotting: the limits are 3 % of the time span before
\* the first and after the last index value, kept here in 1/100 s; with a NaT
\* at the end of the index both limits are NaT
x_limit(df) ==
    IF df.nat > 0 THEN [kind |-> "NaT", lower |-> 0, upper |-> 0]
    ELSE LET mintime == df.index[1]
             maxtime == df.index[Len(df.index)]
             diff == maxtime - mintime
         IN  [kind |-> "set", lower |-> 100 * mintime - 3 * diff,
              upper |-> 100 * maxtime + 3 * diff]

\* PlotBuildrate._plot_mpl_core: calc_rolling_event_rate(df.index.to_series(),
\* window_width_seconds=86400 * self.wwd); groupby leaves the NaT out
BuildRate(df, W) == calc_rolling_event_rate(df.index, W, FALSE, <<>>)

\* the quotient of two samples; an operand is <<>> where the other series has
\* no sample at the timestamp (the quotient is then NaN)
Quotient(x, y) == [num |-> x, den |-> y]

\* passed / all at the timestamp t of the joined index: one row for every pair
\* of a row of `passed` and a row of `all` at t
JoinAt(passed, all, t) ==
    LET lp == SelectSeq(passed, LAMBDA x : x.t = t)
        la == SelectSeq(all, LAMBDA x : x.t = t)
    IN  IF la = <<>>
        THEN [i \in DOMAIN lp |-> [t |-> t, v |-> Quotient(<<lp[i].v>>, <<>>)]]
        ELSE IF lp = <<>>
        THEN [j \in DOMAIN la |-> [t |-> t, v |-> Quotient(<<>>, <<la[j].v>>)]]
        ELSE [k \in 1..(Len(lp) * Len(la)) |->
                [t |-> t,
                 v |-> Quotient(<<lp[((k - 1) \div Len(la)) + 1].v>>,
                                <<la[((k - 1) % Len(la)) + 1].v>>)]]

RECURSIVE JoinAll(_, _, _)
JoinAll(passed, all, labels) ==
    IF labels = <<>> THEN <<>>
    ELSE JoinAt(passed, all, Head(labels)) \o JoinAll(passed, all, Tail(labels))

\* rolling_build_rate_passed / rolling_build_rate_all: pandas divides row by
\* row when the two indexes are equal, and otherwise aligns the operands on
\* the outer join of the indexes
Divide(passed, all) ==
    IF Index(passed) = Index(all)
    THEN [i \in DOMAIN passed |->
            [t |-> passed[i].t, v |-> Quotient(<<passed[i].v>>, <<all[i].v>>)]]
    ELSE JoinAll(passed, all, SortedSeq(Range(Index(passed)) \cup Range(Index(all))))

\* construct_df_for_jobs: j["duration_seconds"] is read of every job (KeyError
\* for a job that has no such key: a waiter job, which rewrite_build_objects
\* leaves as it is); the jobs whose duration is None are dropped first
construct_df_for_jobs(jobs) ==
    LET timed == SelectSeq(jobs, LAMBDA j : j.duration_seconds.kind = "num")
    IN  IF \E i \in DOMAIN jobs : jobs[i].duration_seconds.kind = "missing"
        THEN [status |-> "KeyError", index |-> <<>>, nat |-> 0, rows |-> <<>>]
        ELSE IF timed = <<>>
        THEN [status |-> "AttributeError", index |-> <<>>, nat |-> 0, rows |-> <<>>]
        ELSE [status |-> "ok",
              index |-> SortAsc([i \in DOMAIN timed |-> timed[i].started_at.val]),
              nat |-> 0,
              rows |-> SortIndex([i \in DOMAIN timed |->
                            [index |-> IndexValue(timed[i].started_at),
                             build_number |-> timed[i].build_number,
                             duration_seconds |-> timed[i].duration_seconds]])]

\* the non-NaN durations of the rows in the window of row i: the rows up to i
\* whose index value lies in (t_i - W, t_i]
WindowValues(rows, W, i) ==
    LET inWindow == {j \in 1..i : /\ rows[j].index[1] > rows[i].index[1] - W
                                  /\ rows[j].duration_seconds.kind = "num"}
    IN  SortAsc([k \in 1..Cardinality(inWindow) |->
                    rows[SortedSeq(inWindow)[k]].duration_seconds.val])

\* rollingwindow.mean(): sum and number of the values (NaN when there is
\* none); the plotted unit is hours, the model keeps the seconds
RollingMean(rows, W) ==
    [i \in DOMAIN rows |->
        [t |-> rows[i].index[1],
         v |-> [sum |-> SumSeq(WindowValues(rows, W, i)),
                count |-> Len(WindowValues(rows, W, i))]]]

\* rollingwindow.median(): the two middle values (the same one for an odd
\* number of values), <<>> for NaN
RollingMedian(rows, W) ==
    [i \in DOMAIN rows |->
        LET vals == WindowValues(rows, W, i)
            n == Len(vals)
        IN  [t |-> rows[i].index[1],
             v |-> IF n = 0 THEN <<>> ELSE <<vals[(n + 1) \div 2], vals[n \div 2 + 1]>>]]

\* PlotDuration._plot_mpl_core: series_to_plot.rolling("<wwd>d"), a time
\* window, needs a monotonic index without NaT (ValueError); then the mean
\* and the median of the window
plot_mpl_core(df, W) ==
    IF df.nat > 0 THEN [status |-> "ValueError", mean |-> <<>>, median |-> <<>>]
    ELSE [status |-> "ok", mean |-> RollingMean(df.rows, W),
          median |-> RollingMedian(df.rows, W)]

\* analyze_passed_builds: rollingwindow_w_days=10
rollingwindow_w_days == 10

(***************************************************************************)
(* The inputs of main: up to MaxMainBuilds builds (none for a pipeline     *)
(* whose cache holds no build), newest first.  There are two kinds of      *)
(* build history.  A short one: every build passed or failed, started at   *)
(* one of MainTimes or never, finished or not, without jobs.  A long one:  *)
(* two or more builds, passed or failed, started a whole number of window  *)
(* widths after second 0 and finished, a newer build never started before  *)
(* an older one, so that the history can span more than the 96 hourly bins *)
(* the rate estimator trims; the newest build, if it passed, has one of    *)
(* MainJobLists as its jobs (the jobs of the other builds are never read   *)
(* differently).  The three options are given or not.                      *)
(***************************************************************************)
MaxMainBuilds == 3

\* main: window_width_days=4, for PlotBuildrate and analyze_build_stability
window_width_days == 4

\* the one window width of main, in seconds
MainWidths == {86400 * window_width_days}

MainTimes == {0, 3600, 7200}

MainShapes ==
    {[state |-> "passed", started_at |-> Str(t), finished_at |-> Str(t + d)] :
            t \in MainTimes, d \in {600, 1800}}
        \cup {[state |-> "failed", started_at |-> Str(t), finished_at |-> Str(t + 600)] :
                    t \in MainTimes}
        \cup {[state |-> "failed", started_at |-> Str(3600), finished_at |-> Null],
              [state |-> "canceled", started_at |-> Null, finished_at |-> Str(7200)],
              [state |-> "canceled", started_at |-> Null, finished_at |-> Null]}

RawMainBuild(n, shape) ==
    [RawBuild(n, [CompleteStamps EXCEPT !.started_at = shape.started_at,
                                        !.finished_at = shape.finished_at], <<>>)
        EXCEPT !.state = shape.state]

LongTimes == {k * 86400 * window_width_days : k \in 0..2}

LongShapes ==
    {[state |-> st, started_at |-> Str(t), finished_at |-> Str(t + 1800)] :
            st \in {"passed", "failed"}, t \in LongTimes}

\* the jobs of the newest build: none; script jobs of four steps, the fourth
\* never finished; a step "d" run twice and never finished, and a step "a";
\* a script job and a waiter job that carries a step key
MainJobLists ==
    {<<>>,
     <<RawJob("script", CompleteStamps, Key("a")),
       RawJob("script", CompleteStamps, Key("b")),
       RawJob("script", CompleteStamps, Key("c")),
       RawJob("script", [CompleteStamps EXCEPT !.finished_at = Null], Key("d"))>>,
     <<RawJob("script", CompleteStamps, Key("a")),
       RawJob("script", [CompleteStamps EXCEPT !.finished_at = Null], Key("d")),
       RawJob("script", [CompleteStamps EXCEPT !.finished_at = Null], Key("d"))>>,
     <<RawJob("script", CompleteStamps, Key("a")),
       RawJob("waiter", NoStamps, Key("wait"))>>}

ShortRuns(n) == UNION {[1..k -> MainShapes] : k \in 0..n}

LongRuns(n) ==
    UNION {{shapes \in [1..k -> LongShapes] :
                \A i \in 1..(k - 1) : shapes[i].started_at.val >= shapes[i + 1].started_at.val} :
            k \in 2..n}

\* what rewrite_build_objects(load_all_builds(...)) hands to main
MainInputs(n) ==
    {rewrite_build_objects(
        [i \in DOMAIN shapes |-> RawMainBuild(Len(shapes) + 1 - i, shapes[i])]).builds :
            shapes \in ShortRuns(n)}
        \cup UNION {{rewrite_build_objects(
                        [i \in DOMAIN shapes |->
                            [RawMainBuild(Len(shapes) + 1 - i, shapes[i])
                                EXCEPT !.jobs = IF i = 1 THEN js ELSE <<>>]]).builds :
                            js \in (IF shapes[1].state = "passed" THEN MainJobLists
                                    ELSE {<<>>})} :
                     shapes \in LongRuns(n)}

MainArgs ==
    [ignore_builds_before : {<<>>, <<3600>>},
     ignore_builds_shorter_than : {<<>>, <<900>>},
     ignore_builds_longer_than : {<<>>, <<900>>}]

MainInit ==
    /\ builds_all \in MainInputs(MaxMainBuilds)
    /\ args \in MainArgs
    /\ main_window_width_seconds \in MainWidths
    /\ main_pc = "filter_builds_based_on_build_time"
    /\ main_error = NoError
    /\ builds_passed = <<>>
    /\ rolling_build_rate_all = <<>>
    /\ rolling_build_rate_passed = <<>>
    /\ rolling_window_stability = <<>>
    /\ global_x_limit = NoLimit
    /\ steps_done = <<>>
    /\ plots_for_subplots = <<>>
    /\ summary_fig = <<>>
    /\ CacheIdle
    /\ RateIdle
    /\ NormIdle
    /\ CfgIdle
    /\ FrameIdle

\* the step returns: main goes on with the next one
StepReturns(step, next) ==
    /\ main_pc' = next
    /\ steps_done' = Append(steps_done, step)
    /\ main_error' = main_error

\* the step raises: the exception leaves main
StepRaises(type, function) ==
    /\ main_pc' = "Traceback"
    /\ main_error' = [type |-> type, raised_in |-> function]
    /\ steps_done' = steps_done

\* builds_all = bfilter.filter_builds_based_on_build_time(builds_all)
FilterBuildsBasedOnBuildTime ==
    /\ main_pc = "filter_builds_based_on_build_time"
    /\ LET kept == filter_builds_based_on_build_time(builds_all, args)
       IN  IF kept.status = "ok"
           THEN /\ builds_all' = kept.builds
                /\ StepReturns("filter_builds_based_on_build_time",
                               "set_common_x_limit_for_plotting")
           ELSE /\ StepRaises(kept.status, "filter_builds_based_on_build_time")
                /\ UNCHANGED builds_all
    /\ UNCHANGED <<args, main_window_width_seconds, builds_passed,
                   rolling_build_rate_all, rolling_build_rate_passed,
                   rolling_window_stability, global_x_limit>>
    /\ UNCHANGED <<plots_for_subplots, summary_fig>>
    /\ UNCHANGED <<cacheVars, rateVars, normVars, cfgVars, frameVars>>

\* set_common_x_limit_for_plotting(builds_all)
SetCommonXLimitForPlotting ==
    /\ main_pc = "set_common_x_limit_for_plotting"
    /\ LET df == construct_df_for_builds(builds_all)
       IN  IF df.status # "ok"
           THEN /\ StepRaises(df.status, "construct_df_for_builds")
                /\ UNCHANGED global_x_limit
           ELSE /\ global_x_limit' = x_limit(df)
                /\ StepReturns("set_common_x_limit_for_plotting", "filter_builds_passed")
    /\ UNCHANGED <<args, main_window_width_seconds, builds_all, builds_passed,
                   rolling_build_rate_all, rolling_build_rate_passed,
                   rolling_window_stability>>
    /\ UNCHANGED <<plots_for_subplots, summary_fig>>
    /\ UNCHANGED <<cacheVars, rateVars, normVars, cfgVars, frameVars>>

\* builds_passed = bfilter.filter_builds_passed(
\*     bfilter.filter_builds_based_on_duration(builds_all))
FilterBuildsPassed ==
    /\ main_pc = "filter_builds_passed"
    /\ LET kept == PassedBuilds(builds_all, args)
       IN  IF kept.status = "ok"
           THEN /\ builds_passed' = kept.builds
                /\ StepReturns("filter_builds_passed", "PlotBuildrate")
           ELSE /\ StepRaises(kept.status, "filter_builds_based_on_duration")
                /\ UNCHANGED builds_passed
    /\ UNCHANGED <<args, main_window_width_seconds, builds_all,
                   rolling_build_rate_all, rolling_build_rate_passed,
                   rolling_window_stability, global_x_limit>>
    /\ UNCHANGED <<plots_for_subplots, summary_fig>>
    /\ UNCHANGED <<cacheVars, rateVars, normVars, cfgVars, frameVars>>

\* p = plot.PlotBuildrate(builds_map={"all builds": construct_df_for_builds(
\* builds_all), "passed builds": construct_df_for_builds(builds_passed)}, ...);
\* p.plot_mpl_singlefig()
PlotBuildrate ==
    /\ main_pc = "PlotBuildrate"
    /\ LET df_all == construct_df_for_builds(builds_all)
           df_passed == construct_df_for_builds(builds_passed)
           W == main_window_width_seconds
           rate_all == BuildRate(df_all, W)
           rate_passed == BuildRate(df_passed, W)
       IN  IF df_all.status # "ok" \/ df_passed.status # "ok"
           THEN StepRaises("AttributeError", "construct_df_for_builds")
           ELSE IF rate_all.status # "ok"
           THEN StepRaises(rate_all.status, "calc_rolling_event_rate")
           ELSE IF rate_passed.status # "ok"
           THEN StepRaises(rate_passed.status, "calc_rolling_event_rate")
           ELSE StepReturns("PlotBuildrate", "analyze_build_stability")
    /\ UNCHANGED <<args, main_window_width_seconds, builds_all, builds_passed,
                   rolling_build_rate_all, rolling_build_rate_passed,
                   rolling_window_stability, global_x_limit>>
    /\ plots_for_subplots' =
            IF main_pc' = "Traceback" THEN plots_for_subplots
            ELSE Append(plots_for_subplots, [class |-> "PlotBuildrate", title |-> "build rate"])
    /\ UNCHANGED summary_fig
    /\ UNCHANGED <<cacheVars, rateVars, normVars, cfgVars, frameVars>>

\* analyze_build_stability(builds_all, builds_passed, window_width_days=4)
AnalyzeBuildStability ==
    /\ main_pc = "analyze_build_stability"
    /\ LET df_all == construct_df_for_builds(builds_all)
           df_passed == construct_df_for_builds(builds_passed)
           W == main_window_width_seconds
           rate_all == calc_rolling_event_rate(df_all.index, W, FALSE, <<>>)
           rate_passed == calc_rolling_event_rate(df_passed.index, W, TRUE,
                                                  IndexMax(df_passed.index))
       IN  IF df_all.status # "ok" \/ df_passed.status # "ok"
           THEN /\ StepRaises("AttributeError", "construct_df_for_builds")
                /\ UNCHANGED <<rolling_build_rate_all, rolling_build_rate_passed,
                               rolling_window_stability>>
           ELSE IF rate_all.status # "ok"
           THEN /\ StepRaises(rate_all.status, "calc_rolling_event_rate")
                /\ UNCHANGED <<rolling_build_rate_all, rolling_build_rate_passed,
                               rolling_window_stability>>
           ELSE IF rate_passed.status # "ok"
           THEN /\ StepRaises(rate_passed.status, "calc_rolling_event_rate")
                /\ rolling_build_rate_all' = rate_all.out
                /\ UNCHANGED <<rolling_build_rate_passed, rolling_window_stability>>
           ELSE /\ StepReturns("analyze_build_stability", "analyze_passed_builds")
                /\ rolling_build_rate_all' = rate_all.out
                /\ rolling_build_rate_passed' = rate_passed.out
                /\ rolling_window_stability' = Divide(rate_passed.out, rate_all.out)
    /\ UNCHANGED <<args, main_window_width_seconds, builds_all, builds_passed,
                   global_x_limit>>
    /\ plots_for_subplots' =
            IF main_pc' = "Traceback" THEN plots_for_subplots
            ELSE Append(plots_for_subplots, [class |-> "PlotStability", title |-> "stability"])
    /\ UNCHANGED summary_fig
    /\ UNCHANGED <<cacheVars, rateVars, normVars, cfgVars, frameVars>>

\* the loop of analyze_passed_builds over the most common step keys: the
\* frame of the key's jobs, a PlotDuration of it, p.plot_mpl_singlefig(),
\* _PLOTS_FOR_SUBPLOTS.append(p); an exception leaves the loop with the plots
\* registered so far
RECURSIVE StepKeyPlots(_, _)
StepKeyPlots(keys, by_key) ==
    IF keys = <<>> THEN [status |-> "ok", raised_in |-> "none", plots |-> <<>>]
    ELSE LET df_job == construct_df_for_jobs(by_key[Head(keys)])
             rest == StepKeyPlots(Tail(keys), by_key)
         IN  IF df_job.status # "ok"
             THEN [status |-> df_job.status, raised_in |-> "construct_df_for_jobs",
                   plots |-> <<>>]
             ELSE IF plot_mpl_core(df_job, 86400 * rollingwindow_w_days).status # "ok"
             THEN [status |-> plot_mpl_core(df_job, 86400 * rollingwindow_w_days).status,
                   raised_in |-> "rolling", plots |-> <<>>]
             ELSE [status |-> rest.status, raised_in |-> rest.raised_in,
                   plots |-> <<[class |-> "PlotDuration", title |-> Head(keys)]>>
                                \o rest.plots]

\* cia/plot.py: the methods of the plot classes, and the names the module
\* defines
PlotMethods(class) ==
    IF class = "PlotDuration"
    THEN {"_savefig_mpl", "plot_mpl_singlefig", "plot_mpl_linscale_subplot",
          "_plot_mpl_core", "_mutate_cur_mpl_ax_to_logscale"}
    ELSE {"_savefig_mpl", "plot_mpl_singlefig", "plot_mpl_subplot", "_plot_mpl_core"}

PlotModuleNames ==
    {"_GLOBAL_X_LIMIT", "set_x_limit_for_all_plots", "get_axes_in_new_fig", "Plot",
     "PlotStability", "PlotBuildrate", "PlotDuration", "matplotlib_config"}

\* create_summary_fig_with_subplots: one row per registered plot;
\* fig.subplots(n_rows, 1) is an array of axes only for n_rows > 1; every
\* plot is drawn again with p.plot_mpl_subplot(ax); the figure is saved with
\* plot.savefig(...).  A missing attribute is an AttributeError.
create_summary_fig_with_subplots(plots) ==
    LET n_rows == Len(plots)
        lacking == {i \in DOMAIN plots : "plot_mpl_subplot" \notin PlotMethods(plots[i].class)}
        first == CHOOSE i \in lacking : \A j \in lacking : i <= j
    IN  IF n_rows = 0
        THEN [status |-> "ValueError", raised_in |-> "fig.subplots", panels |-> <<>>]
        ELSE IF n_rows = 1
        THEN [status |-> "TypeError", raised_in |-> "zip", panels |-> <<>>]
        ELSE IF lacking # {}
        THEN [status |-> "AttributeError", raised_in |-> "plot_mpl_subplot",
              panels |-> SubSeq(plots, 1, first - 1)]
        ELSE IF "savefig" \notin PlotModuleNames
        THEN [status |-> "AttributeError", raised_in |-> "plot.savefig", panels |-> plots]
        ELSE [status |-> "ok", raised_in |-> "none", panels |-> plots]

\* analyze_passed_builds(builds_all): the passed builds once more, the step
\* keys, the frame and the PlotDuration of the builds, and the same for the
\* jobs of each of the three most common step keys
AnalyzePassedBuilds ==
    /\ main_pc = "analyze_passed_builds"
    /\ LET kept == PassedBuilds(builds_all, args)
           top == identify_top_n_step_keys(kept.builds)
           df == construct_df_for_builds(kept.builds)
           trend == plot_mpl_core(df, 86400 * rollingwindow_w_days)
           loop == StepKeyPlots(most_common(top.step_key_counter, top.key_order, 3),
                                top.jobs_by_key)
           registered == Append(plots_for_subplots,
                                [class |-> "PlotDuration", title |-> "pipeline"])
                            \o loop.plots
       IN  IF kept.status # "ok"
           THEN /\ StepRaises(kept.status, "filter_builds_based_on_duration")
                /\ UNCHANGED <<step_key_counter, jobs_by_key, plots_for_subplots>>
           ELSE IF df.status # "ok"
           THEN /\ StepRaises(df.status, "construct_df_for_builds")
                /\ UNCHANGED <<step_key_counter, jobs_by_key, plots_for_subplots>>
           ELSE IF trend.status # "ok"
           THEN /\ StepRaises(trend.status, "rolling")
                /\ UNCHANGED <<step_key_counter, jobs_by_key, plots_for_subplots>>
           ELSE IF loop.status # "ok"
           THEN /\ StepRaises(loop.status, loop.raised_in)
                /\ plots_for_subplots' = registered
                /\ UNCHANGED <<step_key_counter, jobs_by_key>>
           ELSE /\ StepReturns("analyze_passed_builds", "create_summary_fig_with_subplots")
                /\ step_key_counter' = top.step_key_counter
                /\ jobs_by_key' = top.jobs_by_key
                /\ plots_for_subplots' = registered
    /\ UNCHANGED summary_fig
    /\ UNCHANGED <<args, main_window_width_seconds, builds_all, builds_passed,
                   rolling_build_rate_all, rolling_build_rate_passed,
                   rolling_window_stability, global_x_limit>>
    /\ UNCHANGED <<builds_in, norm_pc, builds_out>>
    /\ UNCHANGED <<cacheVars, rateVars, cfgVars, frameVars>>

\* create_summary_fig_with_subplots(); sys.exit(0)
CreateSummaryFigWithSubplots ==
    /\ main_pc = "create_summary_fig_with_subplots"
    /\ LET fig == create_summary_fig_with_subplots(plots_for_subplots)
       IN  IF fig.status = "ok"
           THEN /\ StepReturns("create_summary_fig_with_subplots", "exit0")
                /\ summary_fig' = <<fig.panels>>
           ELSE /\ StepRaises(fig.status, fig.raised_in)
                /\ UNCHANGED summary_fig
    /\ UNCHANGED plots_for_subplots
    /\ UNCHANGED <<args, main_window_width_seconds, builds_all, builds_passed,
                   rolling_build_rate_all, rolling_build_rate_passed,
                   rolling_window_stability, global_x_limit>>
    /\ UNCHANGED <<cacheVars, rateVars, normVars, cfgVars, frameVars>>

MainNext ==
    \/ FilterBuildsBasedOnBuildTime
    \/ SetCommonXLimitForPlotting
    \/ FilterBuildsPassed
    \/ PlotBuildrate
    \/ AnalyzeBuildStability
    \/ AnalyzePassedBuilds
    \/ CreateSummaryFigWithSubplots

MainSpec == MainInit /\ [][MainNext]_vars

(***************************************************************************)
(* Part E (specification ConfigSpec): parse_args of cia/cfg.py, followed   *)
(* by main up to its first filter step, where the value of                 *)
(* --ignore-builds-before is parsed a second time.  The value is a string  *)
(* "<y>-<f>-<d>" of three decimal fields, given by the three numbers; the  *)
(* output directory path points to nothing, to a file or to a directory    *)
(* left by an earlier run.                                                 *)
(***************************************************************************)
IsLeap(year) == year % 4 = 0 /\ (year % 100 # 0 \/ year % 400 = 0)

DaysInMonth(year, month) ==
    IF month = 2 THEN (IF IsLeap(year) THEN 29 ELSE 28)
    ELSE IF month \in {4, 6, 9, 11} THEN 30 ELSE 31

\* datetime.strptime(date_string, format) for the two formats the program
\* uses.  %M is the minute (0..59), %m the month (1..12), %d the day of the
\* month (1..31); a field that is not given defaults (month 1, minute 0), and
\* the day must exist in the month.
strptime(date_string, format) ==
    LET ValueError == [status |-> "ValueError", year |-> 0, month |-> 0, day |-> 0,
                       minute |-> 0]
    IN  IF format = "%Y-%M-%d"
        THEN IF date_string.f \in 0..59 /\ date_string.d \in 1..DaysInMonth(date_string.y, 1)
             THEN [status |-> "ok", year |-> date_string.y, month |-> 1,
                   day |-> date_string.d, minute |-> date_string.f]
             ELSE ValueError
        ELSE IF /\ date_string.f \in 1..12
                /\ date_string.d \in 1..DaysInMonth(date_string.y, date_string.f)
             THEN [status |-> "ok", year |-> date_string.y, month |-> date_string.f,
                   day |-> date_string.d, minute |-> 0]
             ELSE ValueError

\* the midnight that is second 0 of the build timestamps: 2020-01-01T00:00Z
EpochYear == 2020

RECURSIVE DaysBeforeMonth(_, _)
DaysBeforeMonth(year, month) ==
    IF month = 1 THEN 0
    ELSE DaysBeforeMonth(year, month - 1) + DaysInMonth(year, month - 1)

\* earliest_date.replace(tzinfo=timezone.utc), in seconds; the years of the
\* model are EpochYear and the (365 days long) year before it
Timestamp(dt) ==
    86400 * (365 * (dt.year - EpochYear) + DaysBeforeMonth(dt.year, dt.month)
                + dt.day - 1) + 60 * dt.minute

DateYears == {2019, 2020}

DateFields == {0, 1, 2, 12, 13, 59, 60}

DateDays == {0, 1, 28, 29, 30, 31, 32}

DateStrings == [y : DateYears, f : DateFields, d : DateDays]

\* what load_all_builds and rewrite_build_objects hand to main: no build, or
\* one build
CfgBuilds ==
    {<<>>} \cup {rewrite_build_objects(<<RawMainBuild(1, shape)>>).builds :
                    shape \in MainShapes}

ConfigInit ==
    /\ cfg_pc = "parse_args"
    /\ argv \in [ignore_builds_before : {<<>>} \cup {<<d>> : d \in DateStrings},
                 output_directory : {"report"}]
    /\ output_directory \in {"absent", "file", "directory"}
    /\ exit_status = <<>>
    /\ fetched = FALSE
    /\ cfg_error = NoError
    /\ cfg_builds = <<>>
    /\ CacheIdle
    /\ RateIdle
    /\ NormIdle
    /\ MainIdle
    /\ FrameIdle

\* cfg.parse_args: the date is validated with "%Y-%M-%d"; then the output
\* directory is removed if it exists, and created
ParseArgs ==
    /\ cfg_pc = "parse_args"
    /\ IF /\ argv.ignore_builds_before # <<>>
          /\ strptime(argv.ignore_builds_before[1], "%Y-%M-%d").status # "ok"
       THEN /\ cfg_pc' = "sys.exit"
            /\ exit_status' = <<1>>
            /\ UNCHANGED output_directory
       ELSE IF output_directory = "file"
       THEN /\ cfg_pc' = "sys.exit"
            /\ exit_status' = <<1>>
            /\ UNCHANGED output_directory
       ELSE /\ cfg_pc' = "load_all_builds"
            /\ output_directory' = "empty directory"
            /\ UNCHANGED exit_status
    /\ UNCHANGED <<argv, fetched, cfg_error, cfg_builds>>
    /\ UNCHANGED <<cacheVars, rateVars, normVars, mainVars, frameVars>>

\* main: builds_all = rewrite_build_objects(load_all_builds(...)).  The cache
\* file and the provider are the environment of this part, so the call has
\* the outcomes of Part A: it returns the builds; a cache file that holds the
\* empty list and is older than skip_if_newer_than_mins makes builds_cached[0]
\* an IndexError, before any request; a request that fails raises out of
\* fetch_builds.  An exception leaves main: traceback, exit status 1.
LoadAllBuilds ==
    /\ cfg_pc = "load_all_builds"
    /\ fetched' = TRUE
    /\ \/ /\ cfg_builds' \in CfgBuilds
          /\ cfg_pc' = "filter_builds_based_on_build_time"
          /\ UNCHANGED <<exit_status, cfg_error>>
       \/ /\ cfg_pc' = "Traceback"
          /\ cfg_error' = [type |-> "IndexError", raised_in |-> "load_all_builds"]
          /\ exit_status' = <<1>>
          /\ UNCHANGED cfg_builds
       \/ /\ cfg_pc' = "Traceback"
          /\ cfg_error' = [type |-> "ConnectionError", raised_in |-> "fetch_builds"]
          /\ exit_status' = <<1>>
          /\ UNCHANGED cfg_builds
    /\ UNCHANGED <<argv, output_directory>>
    /\ UNCHANGED <<cacheVars, rateVars, normVars, mainVars, frameVars>>

\* main: builds_all = bfilter.filter_builds_based_on_build_time(builds_all);
\* the date is parsed with "%Y-%m-%d".  An exception leaves main: the
\* interpreter prints the traceback and exits with status 1.
ParseDateAndFilterBuilds ==
    /\ cfg_pc = "filter_builds_based_on_build_time"
    /\ LET given == argv.ignore_builds_before # <<>>
           earliest_date == strptime(argv.ignore_builds_before[1], "%Y-%m-%d")
           kept == filter_builds_based_on_build_time(cfg_builds,
                        [ignore_builds_before |-> <<Timestamp(earliest_date)>>,
                         ignore_builds_shorter_than |-> <<>>,
                         ignore_builds_longer_than |-> <<>>])
       IN  IF ~given
           THEN /\ cfg_pc' = "set_common_x_limit_for_plotting"
                /\ UNCHANGED <<cfg_builds, cfg_error, exit_status>>
           ELSE IF earliest_date.status # "ok"
           THEN /\ cfg_pc' = "Traceback"
                /\ cfg_error' = [type |-> earliest_date.status, raised_in |-> "strptime"]
                /\ exit_status' = <<1>>
                /\ UNCHANGED cfg_builds
           ELSE IF kept.status # "ok"
           THEN /\ cfg_pc' = "Traceback"
                /\ cfg_error' = [type |-> kept.status,
                                 raised_in |-> "filter_builds_based_on_build_time"]
                /\ exit_status' = <<1>>
                /\ UNCHANGED cfg_builds
           ELSE /\ cfg_pc' = "set_common_x_limit_for_plotting"
                /\ cfg_builds' = kept.builds
                /\ UNCHANGED <<cfg_error, exit_status>>
    /\ UNCHANGED <<argv, output_directory, fetched>>
    /\ UNCHANGED <<cacheVars, rateVars, normVars, mainVars, frameVars>>

ConfigNext ==
    \/ ParseArgs
    \/ LoadAllBuilds
    \/ ParseDateAndFilterBuilds

ConfigSpec == ConfigInit /\ [][ConfigNext]_vars

(***************************************************************************)
(* Part F (specification FrameSpec): construct_df_for_builds and           *)
(* construct_df_for_jobs called on a list of build or job dictionaries,    *)
(* and the rolling mean and median PlotDuration._plot_mpl_core computes    *)
(* from the frame's duration_seconds column.                               *)
(***************************************************************************)
MaxFrameRecords == 2

\* ten days (analyze_passed_builds' rollingwindow_w_days), and one hour
FrameWindows == {3600, 864000}

FrameBuilds(n) ==
    UNION {{rewrite_build_objects([i \in 1..k |-> RawMainBuild(k + 1 - i, shapes[i])]).builds :
                shapes \in [1..k -> MainShapes]} : k \in 0..n}

\* the jobs filed under a step key: script jobs, and a waiter job that
\* carries a step key (rewrite_build_objects skips it)
FrameJobShapes ==
    {rewrite_job(RawJob("script",
                        [CompleteStamps EXCEPT !.started_at = shape.started_at,
                                               !.finished_at = shape.finished_at],
                        Key("build"))) : shape \in MainShapes}
        \cup {rewrite_job(RawJob("waiter", NoStamps, Key("build")))}

FrameJobs(n) == UNION {[1..k -> FrameJobShapes] : k \in 0..n}

FrameInit ==
    /\ frame_kind \in {"builds", "jobs"}
    /\ frame_records \in (IF frame_kind = "builds" THEN FrameBuilds(MaxFrameRecords)
                          ELSE FrameJobs(MaxFrameRecords))
    /\ frame_window \in FrameWindows
    /\ frame_pc = "construct"
    /\ frame_df = NoFrame
    /\ frame_trend = NoTrend
    /\ CacheIdle
    /\ RateIdle
    /\ NormIdle
    /\ MainIdle
    /\ CfgIdle

ConstructDfForBuilds ==
    /\ frame_pc = "construct"
    /\ frame_kind = "builds"
    /\ frame_df' = construct_df_for_builds(frame_records)
    /\ frame_pc' = IF frame_df'.status = "ok" THEN "plot" ELSE frame_df'.status
    /\ UNCHANGED <<frame_kind, frame_records, frame_window, frame_trend>>
    /\ UNCHANGED <<cacheVars, rateVars, normVars, mainVars, cfgVars>>

ConstructDfForJobs ==
    /\ frame_pc = "construct"
    /\ frame_kind = "jobs"
    /\ frame_df' = construct_df_for_jobs(frame_records)
    /\ frame_pc' = IF frame_df'.status = "ok" THEN "plot" ELSE frame_df'.status
    /\ UNCHANGED <<frame_kind, frame_records, frame_window, frame_trend>>
    /\ UNCHANGED <<cacheVars, rateVars, normVars, mainVars, cfgVars>>

\* plot.PlotDuration(df, ...).plot_mpl_singlefig()
PlotDuration ==
    /\ frame_pc = "plot"
    /\ frame_trend' = plot_mpl_core(frame_df, frame_window)
    /\ frame_pc' = IF frame_trend'.status = "ok" THEN "done" ELSE frame_trend'.status
    /\ UNCHANGED <<frame_kind, frame_records, frame_window, frame_df>>
    /\ UNCHANGED <<cacheVars, rateVars, normVars, mainVars, cfgVars>>

FrameNext ==
    \/ ConstructDfForBuilds
    \/ ConstructDfForJobs
    \/ PlotDuration

FrameSpec == FrameInit /\ [][FrameNext]_vars

(***************************************************************************)
(* Properties of the cache and the fetch (specification Spec).             *)
(***************************************************************************)
InRun == pc # "idle"

FoundCache == InRun /\ cacheAtStart # NoCache

\* C1: after any sequence of load_all_builds runs against one cache path, the
\* build list that is persisted and the list that is returned hold at most one
\* record per build number.
C1_AtMostOneRecordPerNumber ==
    /\ cache # NoCache => NoDuplicates(cache)
    /\ returned # NoCache => NoDuplicates(returned)

\* C2: fetch_builds sends no further page request once a processed page held a
\* build <= only_newer_than_build_number; every later request names the page
\* the previous response named; and the fetch returns only after such a build
\* was seen or a response carried no next page.
C2_StopsEarlyElseFollowsNextPage ==
    /\ [][nRequests' = nRequests + 1 =>
            /\ ~sawOld
            /\ nRequests >= 1 => (next_page # NoPage /\ reqPage' = next_page)]_vars
    /\ [](nWrites >= 1 => (sawOld \/ next_page = NoPage))

C2_Witness ==
    /\ pc = "returned"
    /\ nRequests >= 2
    /\ sawOld
    /\ next_page # NoPage

\* C3: when the provider's listing does not change during the fetch,
\* fetch_builds returns exactly the listed builds with number >
\* only_newer_than_build_number, each once, in listing order, whatever the page
\* size; with the default threshold -1 that is the whole listing.
C3_ReturnsExactlyTheNewerBuilds ==
    LET Wanted(number) == number > only_newer_than_build_number
    IN  (pc = "returned" /\ nWrites = 1 /\ upstream = listing0)
            => builds = SelectSeq(listing0, Wanted)

C3_Witness ==
    /\ pc = "returned"
    /\ nWrites = 1
    /\ upstream = listing0
    /\ only_newer_than_build_number >= 1
    /\ Len(builds) >= 2
    /\ Len(builds) < Len(listing0)
    /\ reqPage >= 2

\* C4: a run that finds a fresh cache returns the cached builds, sends no
\* request and does not rewrite the cache file; a run that finds a stale cache
\* fetches with the threshold set to the newest (greatest) build number in the
\* cache.
C4_FreshReturnsCacheStaleFetchesFromNewest ==
    /\ (FoundCache /\ CacheIsFresh(ageAtStart)) =>
            /\ nRequests = 0
            /\ nWrites = 0
            /\ cache = cacheAtStart
            /\ cache_age_minutes = ageAtStart
            /\ pc = "returned"
            /\ returned = cacheAtStart
    /\ (FoundCache /\ ~CacheIsFresh(ageAtStart) /\ cacheAtStart # <<>>) =>
            /\ pc \in {"fetch", "fetching", "returned", "failed"}
            /\ only_newer_than_build_number = MaxOf(Range(cacheAtStart))

\* the half of C4 about the fresh cache, on its own
C4_FreshCacheIsReturnedUntouched ==
    (FoundCache /\ CacheIsFresh(ageAtStart)) =>
        /\ nRequests = 0
        /\ nWrites = 0
        /\ cache = cacheAtStart
        /\ cache_age_minutes = ageAtStart
        /\ pc = "returned"
        /\ returned = cacheAtStart

\* C5: a run that finds a cache keeps every record of it, and the records it
\* adds all have numbers greater than every number cached before.
C5_CacheGrowsOnlyByNewerNumbers ==
    (FoundCache /\ cache # NoCache) =>
        /\ Len(cache) >= Len(cacheAtStart)
        /\ SubSeq(cache, 1, Len(cacheAtStart)) = cacheAtStart
        /\ \A i \in (Len(cacheAtStart) + 1)..Len(cache) :
                \A j \in DOMAIN cacheAtStart : cache[i] > cacheAtStart[j]

\* the half of C5 about the records cached before, on its own
C5_CacheKeepsEveryRecord ==
    (FoundCache /\ cache # NoCache) =>
        /\ Len(cache) >= Len(cacheAtStart)
        /\ SubSeq(cache, 1, Len(cacheAtStart)) = cacheAtStart

\* C6, as claimed: in every run the cache file is read exactly once, before
\* any request; it is written at most once, only when a fetch took place, only
\* after the fetch got its last page, and nothing is requested afterwards.
C6_ReadOnceFirstWriteOnceLast ==
    /\ [](InRun => nReads = 1)
    /\ [][nReads' > nReads => (nRequests = 0 /\ nWrites = 0)]_vars
    /\ [](nWrites <= 1)
    /\ [][nWrites' > nWrites =>
            /\ nRequests >= 1
            /\ sawOld \/ next_page = NoPage
            /\ pc' = "returned"]_vars
    /\ [][nWrites >= 1 => nRequests' <= nRequests]_vars

\* C6, amended: in every run the cache file is read at most once, exactly
\* once when the file exists at the start of the run and not at all when it
\* does not, and before any request; it is written at most once, only when a
\* fetch took place, only after the fetch got its last page, and nothing is
\* requested afterwards.
C6_ReadIfPresentFirstWriteOnceLast ==
    /\ [](InRun => nReads = IF cacheAtStart = NoCache THEN 0 ELSE 1)
    /\ [][nReads' > nReads => (nRequests = 0 /\ nWrites = 0)]_vars
    /\ [](nWrites <= 1)
    /\ [][nWrites' > nWrites =>
            /\ nRequests >= 1
            /\ sawOld \/ next_page = NoPage
            /\ pc' = "returned"]_vars
    /\ [][nWrites >= 1 => nRequests' <= nRequests]_vars

C6_Witness ==
    /\ pc = "returned"
    /\ nReads = 1
    /\ nWrites = 1
    /\ nRequests >= 2
    /\ cacheAtStart # NoCache

\* C7: a network failure on any page request ends the run: no request follows
\* it, the cache file is as it was when the run began, and the builds collected
\* from earlier pages are not persisted.
C7_NetworkFailureLeavesCacheUntouched ==
    /\ [](pc = "failed" =>
            /\ cache = cacheAtStart
            /\ cache_age_minutes = ageAtStart
            /\ nWrites = 0
            /\ returned = NoCache)
    /\ [][pc = "failed" =>
            /\ pc' \in {"failed", "idle"}
            /\ nRequests' <= nRequests
            /\ cache' = cache]_vars

C7_Witness ==
    /\ pc = "failed"
    /\ nRequests >= 2
    /\ Len(builds) >= 1
    /\ cacheAtStart # NoCache


(***************************************************************************)
(* Properties of calc_rolling_event_rate (specification RateSpec).         *)
(***************************************************************************)
Called == rate_pc = "done"

Raised == rate_result.status \in {"Exception", "IndexError"}

HourOf(t) == (t \div 3600) * 3600

\* the reference timestamp is set and lies before / after the last event
UntilBeforeLastEvent ==
    /\ series # <<>>
    /\ upsample_with_zeros_until # <<>>
    /\ \E i \in DOMAIN series : upsample_with_zeros_until[1] < series[i]

UntilAfterLastEvent ==
    /\ series # <<>>
    /\ upsample_with_zeros_until # <<>>
    /\ \A i \in DOMAIN series : upsample_with_zeros_until[1] > series[i]

\* C8, as claimed: for every non-empty input and every window width, a call
\* with upsample_with_zeros_until earlier than the latest input timestamp
\* raises the defined error and returns no series.
C8_PastReferenceRaises ==
    (Called /\ UntilBeforeLastEvent) =>
        (rate_result.status = "Exception" /\ rate_result.out = <<>>)

\* C8, amended: the same for the calls with upsample_with_zeros=True (without
\* the flag the reference timestamp is never looked at).
C8_PastReferenceRaisesWhenUpsampling ==
    (Called /\ upsample_with_zeros /\ UntilBeforeLastEvent) =>
        (rate_result.status = "Exception" /\ rate_result.out = <<>>)

C8_Witness ==
    /\ Called
    /\ upsample_with_zeros
    /\ UntilBeforeLastEvent
    /\ Len(series) >= 2
    /\ rate_result.status = "Exception"

\* C9: a call with an empty input series fails, for every window width and
\* every combination of the upsampling options; it never returns a series.
C9_EmptyInputFails ==
    (Called /\ series = <<>>) => (Raised /\ rate_result.out = <<>>)

\* C10, as claimed: with upsample_with_zeros=True and the reference timestamp
\* after the last event, the returned series ends with a run of equal samples
\* that includes a sample at the reference timestamp.
C10_TrailingRunIncludesReference ==
    (Called /\ upsample_with_zeros /\ UntilAfterLastEvent
        /\ rate_result.status = "ok") =>
        LET out == rate_result.out
        IN  \E i \in DOMAIN out :
                /\ out[i].t = upsample_with_zeros_until[1]
                /\ \A j \in i..Len(out) : out[j].v = out[Len(out)].v

\* C10, amended: with upsample_with_zeros=True and the reference timestamp
\* after the last event, let g be the full hour of the reference timestamp and
\* nGrid the number of hours from the hour of the first event to g.  If
\* nGrid <= floor(W / 3600) the trimmed series is empty and the call raises
\* IndexError.  Otherwise the output ends with the last sample of the trimmed
\* series followed by floor((W/2) / 3600) + 1 forward-filled samples, all of the
\* same value (the rate over the window that ends at g); the forward-filled
\* samples start at the timestamp of the last trimmed sample, are 60 minutes
\* apart, and the last one is at g - ((W/2) mod 3600) + 1 seconds.
C10_TrailingRunReachesHourOfReference ==
    (Called /\ upsample_with_zeros /\ UntilAfterLastEvent) =>
        LET W == window_width_seconds
            g == HourOf(upsample_with_zeros_until[1])
            nGrid == (g - HourOf(series[1])) \div 3600 + 1
            n == (W \div 2) \div 3600 + 1
            lastValue ==
                Float(86400 * Cardinality({i \in DOMAIN series : g - W < HourOf(series[i])}),
                      W)
            out == rate_result.out
            L == Len(out)
        IN  IF nGrid <= W \div 3600
            THEN rate_result.status = "IndexError"
            ELSE /\ rate_result.status = "ok"
                 /\ L = (nGrid - W \div 3600) + n
                 /\ \A i \in (L - n)..L : out[i].v = lastValue
                 /\ out[L - n].t = out[L - n + 1].t
                 /\ \A i \in (L - n + 1)..L :
                        out[i].t = g - W \div 2 + (i - (L - n + 1)) * 3600 + 1
                 /\ out[L].t = g - ((W \div 2) % 3600) + 1

C10_Witness ==
    /\ Called
    /\ upsample_with_zeros
    /\ UntilAfterLastEvent
    /\ rate_result.status = "ok"
    /\ window_width_seconds = 7200
    /\ upsample_with_zeros_until[1] # HourOf(upsample_with_zeros_until[1])
    /\ rate_result.out[Len(rate_result.out)].v.num > 0
    /\ Len(rate_result.out) >= 3

(***************************************************************************)
(* The naive, right-aligned rolling rate, written from its definition: at  *)
(* a timestamp T of the binned series e, the events counted in the bins in *)
(* (T - W, T], per day.                                                    *)
(***************************************************************************)
RECURSIVE SumOver(_, _)
SumOver(e, S) ==
    IF S = {} THEN 0
    ELSE LET k == CHOOSE x \in S : TRUE
         IN  e[k].v + SumOver(e, S \ {k})

NaiveRate(e, W, T) ==
    Float(86400 * SumOver(e, {k \in DOMAIN e : T - W < e[k].t /\ e[k].t <= T}), W)

\* the binned event count series of the call, the samples cut off at its left
\* edge and the samples retained
BinnedSeries == EventCounts(series, upsample_with_zeros, upsample_with_zeros_until)

NumTrimmed == window_width_seconds \div BinSeconds

NumRetained == Len(BinnedSeries) - NumTrimmed

Returned == Called /\ rate_result.status = "ok"

\* C11, as claimed: each retained (not forward-filled) output sample carries the
\* value the naive right-aligned rolling rate has at the sample of the binned
\* series exactly window_width_seconds / 2 later.
C11_RetainedSampleIsNaiveValueHalfWindowLater ==
    Returned =>
        LET e == BinnedSeries
            W == window_width_seconds
            out == rate_result.out
        IN  /\ Len(out) >= NumRetained
            /\ \A i \in 1..NumRetained :
                    /\ out[i].t + W \div 2 = e[NumTrimmed + i].t
                    /\ out[i].v = NaiveRate(e, W, e[NumTrimmed + i].t)

\* C11, amended: each retained (not forward-filled) output sample carries the
\* value the naive right-aligned rolling rate has at the sample of the binned
\* series window_width_seconds / 2 - 1 seconds later: the i-th output sample
\* is the (floor(W / 3600) + i)-th naive sample, its timestamp moved earlier by
\* half the window width and later by one second.
C11_RetainedSampleIsNaiveValueHalfWindowLessOneSecondLater ==
    Returned =>
        LET e == BinnedSeries
            W == window_width_seconds
            out == rate_result.out
        IN  /\ Len(out) >= NumRetained
            /\ \A i \in 1..NumRetained :
                    /\ out[i].t + W \div 2 - 1 = e[NumTrimmed + i].t
                    /\ out[i].v = NaiveRate(e, W, e[NumTrimmed + i].t)

C11_Witness ==
    /\ Returned
    /\ window_width_seconds = 5400
    /\ NumRetained >= 2
    /\ rate_result.out[1].v # rate_result.out[2].v
    /\ rate_result.out[1].v.num > 0

\* the input is a train of at least two events, a whole number of them per
\* window width
TrainSpacing == series[2] - series[1]

IsTrain ==
    /\ Len(series) >= 2
    /\ TrainSpacing > 0
    /\ window_width_seconds % TrainSpacing = 0
    /\ \A j \in 1..(Len(series) - 1) : series[j + 1] - series[j] = TrainSpacing

EventsPerWindow == window_width_seconds \div TrainSpacing

\* C12, as claimed: for N events per window width, uniformly spaced W / N
\* apart, every retained sample equals 86400 * N / W.
C12_UniformTrainGivesConstantRate ==
    (Returned /\ IsTrain) =>
        \A i \in 1..NumRetained :
            rate_result.out[i].v = Float(86400 * EventsPerWindow, window_width_seconds)

\* C12, amended: for events uniformly spaced W / N apart, with W a whole
\* multiple of 3600 seconds, a retained sample equals 86400 * N / W if the
\* 60-minute bin it was computed at ends no later than W / N after the last
\* event (the window of whole bins that ends with that bin is then covered by
\* the train).
C12_UniformTrainGivesConstantRateInsideTrain ==
    (Returned /\ IsTrain /\ window_width_seconds % BinSeconds = 0) =>
        LET e == BinnedSeries
            last == series[Len(series)]
        IN  \A i \in 1..NumRetained :
                e[NumTrimmed + i].t + BinSeconds <= last + TrainSpacing
                    => rate_result.out[i].v =
                            Float(86400 * EventsPerWindow, window_width_seconds)

C12_Witness ==
    /\ Returned
    /\ IsTrain
    /\ window_width_seconds = 7200
    /\ EventsPerWindow = 3
    /\ series[1] % BinSeconds # 0
    /\ NumRetained >= 2
    /\ \A i \in 1..NumRetained :
            /\ BinnedSeries[NumTrimmed + i].t + BinSeconds
                    <= series[Len(series)] + TrainSpacing
            /\ rate_result.out[i].v = Float(36, 1)

\* C13, as claimed: the output timestamps never decrease, and none lies beyond
\* the newest data point of the event count series.
C13_OutputWithinNewestDataPoint ==
    Returned =>
        LET out == rate_result.out
            newest == BinnedSeries[Len(BinnedSeries)].t
        IN  /\ \A i \in 1..(Len(out) - 1) : out[i].t <= out[i + 1].t
            /\ \A i \in DOMAIN out : out[i].t <= newest

\* C13, amended: the output timestamps never decrease (the first forward-filled
\* sample repeats the timestamp of the last retained one), and the last one is
\* newest - ((W / 2) mod 3600) + 1 seconds, newest being the newest data point
\* of the event count series: at most one second beyond it.
C13_OutputWithinOneSecondOfNewestDataPoint ==
    Returned =>
        LET out == rate_result.out
            W == window_width_seconds
            newest == BinnedSeries[Len(BinnedSeries)].t
        IN  /\ \A i \in 1..(Len(out) - 1) : out[i].t <= out[i + 1].t
            /\ \A i \in DOMAIN out : out[i].t <= newest + 1
            /\ out[Len(out)].t = newest - ((W \div 2) % BinSeconds) + 1

C13_Witness ==
    /\ Returned
    /\ window_width_seconds = 7200
    /\ upsample_with_zeros
    /\ UntilAfterLastEvent
    /\ Len(rate_result.out) >= 3
    /\ rate_result.out[Len(rate_result.out)].t
            = BinnedSeries[Len(BinnedSeries)].t + 1

(***************************************************************************)
(* Properties of rewrite_build_objects (specification NormSpec) and of     *)
(* identify_top_n_step_keys (specification KeySpec).                       *)
(***************************************************************************)
Rewritten == norm_pc \in {"rewritten", "identified"}

\* the record `after` is the record `before` with a duration that is a number
\* exactly if started_at and finished_at are both non-null, and then their
\* difference in seconds
DurationIsConsistent(before, after) ==
    /\ after.duration_seconds.kind \in {"num", "null"}
    /\ after.duration_seconds.kind = "num"
            <=> (after.started_at.kind # "null" /\ after.finished_at.kind # "null")
    /\ after.duration_seconds.kind = "num"
            <=> (before.started_at.kind = "str" /\ before.finished_at.kind = "str")
    /\ after.duration_seconds.kind = "num" =>
            /\ after.duration_seconds.val = after.finished_at.val - after.started_at.val
            /\ after.duration_seconds.val = before.finished_at.val - before.started_at.val

\* C14: after rewrite_build_objects, for every build and every non-waiter job,
\* duration_seconds is non-null exactly if both started_at and finished_at of
\* that record are non-null, and then equals finished_at - started_at in
\* seconds.
C14_DurationIffStartedAndFinished ==
    Rewritten =>
        \A i \in DOMAIN builds_out :
            /\ DurationIsConsistent(builds_in[i], builds_out[i])
            /\ \A k \in DOMAIN builds_out[i].jobs :
                    builds_out[i].jobs[k].type # "waiter" =>
                        DurationIsConsistent(builds_in[i].jobs[k], builds_out[i].jobs[k])

C14_Witness ==
    /\ Rewritten
    /\ Len(builds_out) = 2
    /\ builds_out[1].duration_seconds = Num(300)
    /\ builds_out[2].duration_seconds = Null
    /\ builds_in[2].started_at = Null
    /\ Len(builds_out[1].jobs) = 2
    /\ builds_out[1].jobs[1].duration_seconds = Num(120)
    /\ builds_out[1].jobs[2].duration_seconds = Null
    /\ builds_in[1].jobs[2].finished_at = Null

\* C15: rewrite_build_objects never raises because of a created_at,
\* started_at, scheduled_at or finished_at that is missing or null on a build
\* or a job: it completes, and the record gets a null duration_seconds.
C15_MissingOrNullTimestampNeverRaises ==
    /\ norm_pc \in {"rewrite", "rewritten", "identified"}
    /\ Rewritten =>
            \A i \in DOMAIN builds_out :
                (builds_in[i].started_at.kind # "str" \/ builds_in[i].finished_at.kind # "str")
                    => builds_out[i].duration_seconds = Null

\* C16: after rewrite_build_objects every non-waiter job carries a
\* build_number equal to the number of the build that owns it.
C16_JobCarriesOwningBuildsNumber ==
    Rewritten =>
        \A i \in DOMAIN builds_out :
            \A k \in DOMAIN builds_out[i].jobs :
                builds_out[i].jobs[k].type # "waiter" =>
                    builds_out[i].jobs[k].build_number = Num(builds_out[i].number)

\* C17: identify_top_n_step_keys counts a job exactly if it has a step_key
\* that is not null: the counter maps each such key to the number of jobs
\* that carry it, the grouping maps it to exactly those jobs, and a job
\* without a step_key or with a null one is in neither.
C17_CounterAndGroupingHoldTheKeyedJobs ==
    norm_pc = "identified" =>
        LET J == AllJobs(builds_out)
            keyed == {i \in DOMAIN J : J[i].step_key.kind = "str"}
            keys == {J[i].step_key.val : i \in keyed}
        IN  /\ DOMAIN step_key_counter = keys
            /\ DOMAIN jobs_by_key = keys
            /\ \A k \in keys :
                    /\ step_key_counter[k] =
                            Cardinality({i \in keyed : J[i].step_key.val = k})
                    /\ Len(jobs_by_key[k]) = step_key_counter[k]
                    /\ jobs_by_key[k] = SelectSeq(J, LAMBDA j : j.step_key = Key(k))

C17_Witness ==
    /\ norm_pc = "identified"
    /\ Len(builds_out) = 2
    /\ DOMAIN step_key_counter = {"build", "test"}
    /\ step_key_counter["build"] = 2
    /\ step_key_counter["test"] = 1
    /\ Len(builds_out[2].jobs) = 1
    /\ \E k \in DOMAIN builds_out[1].jobs : builds_out[1].jobs[k].step_key = KeyNull

(***************************************************************************)
(* Properties of main and its steps (specification MainSpec).              *)
(***************************************************************************)
StabilityComputed == "analyze_build_stability" \in Range(steps_done)

\* C18: the stability series is the pointwise, index-aligned quotient of the
\* passed-builds rate by the all-builds rate: at every timestamp present in
\* both series it holds one value, passed_rate / all_rate at that timestamp
\* (never clamped).
C18_StabilityIsOneQuotientPerTimestamp ==
    StabilityComputed =>
        LET passed == rolling_build_rate_passed
            all == rolling_build_rate_all
            stability == rolling_window_stability
        IN  \A t \in Range(Index(passed)) \cap Range(Index(all)) :
                /\ Cardinality({k \in DOMAIN stability : stability[k].t = t}) = 1
                /\ \A k \in DOMAIN stability :
                        stability[k].t = t =>
                            \E i \in DOMAIN passed, j \in DOMAIN all :
                                /\ passed[i].t = t
                                /\ all[j].t = t
                                /\ stability[k].v = Quotient(<<passed[i].v>>, <<all[j].v>>)

\* calc_rolling_event_rate has raised its reference-timestamp error (the
\* Exception of analysis.py:91) inside a step of main
ReferenceErrorInStep ==
    /\ main_error.raised_in = "calc_rolling_event_rate"
    /\ main_error.type = "Exception"

\* C19: when calc_rolling_event_rate raises its reference-timestamp error
\* inside one analysis step, only that step is aborted: the process does not
\* terminate because of it.
C19_ReferenceErrorAbortsOnlyItsStep ==
    ReferenceErrorInStep => main_pc # "Traceback"

\* no step of main makes calc_rolling_event_rate raise that error: the only
\* call that passes a reference passes the series' own latest timestamp
\* (buildkite.py:199), so C19's case does not occur in any run
ReferenceErrorNeverInStep == ~ReferenceErrorInStep

\* C20: a build whose started_at or finished_at is null never aborts the run,
\* whatever --ignore-builds-before, --ignore-builds-shorter-than and
\* --ignore-builds-longer-than are: the build-time filter and the duration
\* filter complete (no comparison with None raises TypeError).
C20_NullTimestampNeverAbortsRun ==
    (\E i \in DOMAIN builds_all :
            builds_all[i].started_at = Null \/ builds_all[i].finished_at = Null)
        => ~(main_pc = "Traceback" /\ main_error.type = "TypeError")

(***************************************************************************)
(* C21.  A run against a pipeline whose cache holds 0 builds, fresh or     *)
(* stale, completes without raising.  Counterexample in Spec: the cache    *)
(* file holds the empty list and is older than skip_if_newer_than_mins, so *)
(* load_all_builds evaluates builds_cached[0]: IndexError.  (With a fresh  *)
(* cache load_all_builds returns the empty list and main raises one step   *)
(* later, in set_common_x_limit_for_plotting: MainSpec started with no     *)
(* build.)                                                                 *)
(***************************************************************************)
C21_EmptyCacheRunCompletes ==
    (pc # "idle" /\ cacheAtStart = <<>>) => pc # "IndexError"

(***************************************************************************)
(* C22.  Every fatal configuration error (the output directory path exists *)
(* and is not a directory; the value of --ignore-builds-before is not a    *)
(* valid YYYY-MM-DD date) makes the process exit non-zero at argument      *)
(* parsing: the output directory is neither removed nor created, nothing   *)
(* is fetched; and a date that parse_args accepts never fails in           *)
(* filter_builds_based_on_build_time.  Counterexample: the value           *)
(* 2020-13-01 passes parse_args (13 is read as a minute), the directory is *)
(* replaced, the builds are loaded, and strptime raises in the filter.     *)
(***************************************************************************)
ValidDate(date_string) == strptime(date_string, "%Y-%m-%d").status = "ok"

FatalConfiguration ==
    \/ output_directory = "file"
    \/ argv.ignore_builds_before # <<>> /\ ~ValidDate(argv.ignore_builds_before[1])

C22_FatalConfigurationExitsAtParsing ==
    /\ FatalConfiguration =>
            /\ cfg_pc \in {"off", "parse_args", "sys.exit"}
            /\ output_directory # "empty directory"
            /\ ~fetched
            /\ exit_status \in {<<>>, <<1>>}
    /\ cfg_error.raised_in # "strptime"

(***************************************************************************)
(* C23.  A run with valid configuration, reachable provider and a          *)
(* non-empty set of passed builds eventually writes the multiplot summary  *)
(* with one panel per registered plot, in registration order, and exits    *)
(* with code 0.  Such a run never ends otherwise: once its analysis steps  *)
(* have all returned, it is about to write the summary, or it has written  *)
(* it and exited with 0.  Counterexample:                                  *)
(* create_summary_fig_with_subplots raises AttributeError (PlotDuration    *)
(* has no plot_mpl_subplot, cia.plot has no savefig), the figure is not    *)
(* written and main ends with a traceback.                                 *)
(***************************************************************************)
AnalysisDone ==
    /\ builds_passed # <<>>
    /\ \E i \in DOMAIN steps_done : steps_done[i] = "analyze_passed_builds"

SummaryWritten ==
    /\ main_pc = "exit0"
    /\ summary_fig = <<plots_for_subplots>>

C23_ValidRunWritesSummaryAndExitsZero ==
    AnalysisDone => (main_pc = "create_summary_fig_with_subplots" \/ SummaryWritten)

(***************************************************************************)
(* C24.  calc_rolling_event_rate drops exactly the first                   *)
(* floor(window_width_seconds / 3600) samples of the re-centered rolling   *)
(* series and keeps every later one, in order; every sample it returns was *)
(* computed from a rolling window that lies inside the data: the window    *)
(* (T - W, T] of the sample does not reach the 60-minute bin before the    *)
(* first bin of the event count series.                                    *)
(***************************************************************************)
C24_TrimDropsLeadingSamplesAndKeepsFullWindows ==
    Returned =>
        LET e == BinnedSeries
            W == window_width_seconds
            out == rate_result.out
            recentered == ShiftOneSecond(RateCentered(RollingSum(e, W), W))
        IN  /\ Len(out) >= NumRetained
            /\ \A i \in 1..NumRetained : out[i] = recentered[NumTrimmed + i]
            /\ \A i \in DOMAIN out :
                    (out[i].t - 1 + W \div 2) - W >= e[1].t - BinSeconds

\* a window of one hour over events in the first and the third hour: the bin
\* in between is empty, one sample is dropped and two are retained
C24_Witness ==
    /\ Returned
    /\ ~upsample_with_zeros
    /\ NumTrimmed >= 1
    /\ NumRetained >= 2
    /\ \E i \in DOMAIN BinnedSeries : BinnedSeries[i].v = 0

(***************************************************************************)
(* C25.  In analyze_build_stability the two rate series cover the same     *)
(* time extent: at every timestamp where the all-builds rate is defined    *)
(* (and positive) and no build passed within the rolling window of that    *)
(* sample, the passed rate reads 0 and the stability value is 0, not       *)
(* missing.  Counterexample: the newest build failed; the passed series is *)
(* extended only up to its own newest data point, so the all-builds        *)
(* samples after it have no passed sample and the quotient is NaN there.   *)
(***************************************************************************)
\* no passed build started in a bin of the window (T - W, T] whose re-centered
\* sample carries the timestamp t
NoBuildPassedInWindow(t) ==
    LET W == main_window_width_seconds
        T == t - 1 + W \div 2
        started == construct_df_for_builds(builds_passed).index
    IN  \A i \in DOMAIN started : ~(T - W < BinOf(started[i]) /\ BinOf(started[i]) <= T)

C25_OnlyFailuresReadAsStabilityZero ==
    StabilityComputed =>
        \A k \in DOMAIN rolling_window_stability :
            LET row == rolling_window_stability[k]
            IN  (/\ row.v.den # <<>>
                 /\ row.v.den[1].num > 0
                 /\ NoBuildPassedInWindow(row.t))
                    => row.v.num = <<Float(0, 1)>>

(***************************************************************************)
(* C26.  Records with a null duration are excluded before duration trends  *)
(* are computed, for builds as well as for jobs: the frame                 *)
(* construct_df_for_builds / construct_df_for_jobs returns holds exactly   *)
(* the input records whose duration_seconds is not null, from past to      *)
(* future, and the rolling mean and median have the same domain.           *)
(* Counterexample: construct_df_for_builds keeps the build without a       *)
(* duration (its duration is NaN in the frame).                            *)
(***************************************************************************)
WithDuration(records) == SelectSeq(records, LAMBDA r : r.duration_seconds.kind = "num")

FrameConstructed == frame_pc \in {"plot", "done", "ValueError"}

C26_FramesHoldExactlyTheRecordsWithDuration ==
    /\ FrameConstructed =>
            LET rows == frame_df.rows
            IN  /\ Len(rows) = Len(WithDuration(frame_records))
                /\ \A i \in DOMAIN rows : rows[i].duration_seconds.kind = "num"
                /\ \A i, j \in DOMAIN rows : i < j => rows[i].index[1] <= rows[j].index[1]
    /\ frame_pc = "done" =>
            /\ Index(frame_trend.mean) = [i \in DOMAIN frame_df.rows |-> frame_df.rows[i].index[1]]
            /\ Index(frame_trend.median) = Index(frame_trend.mean)

(***************************************************************************)
(* C27.  The cached build list is kept newest-first: after any sequence of *)
(* load_all_builds runs the persisted list is in descending order of build *)
(* number, so that its first element is the build with the greatest number *)
(* in the cache.  Counterexample: a stale cache <<1>> and a new build 2;   *)
(* builds_cached.extend(new_builds) persists <<1, 2>>.                     *)
(***************************************************************************)
C27_CacheIsNewestFirst ==
    (cache # NoCache /\ cache # <<>>) =>
        /\ \A i \in 1..(Len(cache) - 1) : cache[i] >= cache[i + 1]
        /\ cache[1] = MaxOf(Range(cache))

(***************************************************************************)
(* C28.  The timestamps of the series calc_rolling_event_rate returns are  *)
(* pairwise distinct and strictly increasing: the forward-fill extension   *)
(* never repeats a timestamp of the trimmed series.  Counterexample: the   *)
(* appendix index starts at rolling_event_rate_d.index.max(), the last     *)
(* timestamp of the trimmed series, which is therefore returned twice.     *)
(***************************************************************************)
C28_OutputTimestampsAreDistinct ==
    Returned =>
        \A i, j \in DOMAIN rate_result.out :
            i < j => rate_result.out[i].t < rate_result.out[j].t

(***************************************************************************)
(* C29.  For every non-empty input series that passes the                  *)
(* reference-timestamp check, calc_rolling_event_rate returns a non-empty  *)
(* series without raising, also when the binned series holds no more than  *)
(* floor(window_width_seconds / 3600) samples.  Counterexample: one event  *)
(* and a window of one hour; the trimmed series is empty and               *)
(* rolling_event_rate_d.iloc[-1] raises IndexError.                        *)
(***************************************************************************)
PassesReferenceCheck ==
    ~(/\ upsample_with_zeros
      /\ upsample_with_zeros_until # <<>>
      /\ UntilCase(series, upsample_with_zeros_until[1]) = "raise")

C29_NonEmptyInputReturnsNonEmptySeries ==
    (Called /\ series # <<>> /\ PassesReferenceCheck) =>
        /\ rate_result.status = "ok"
        /\ rate_result.out # <<>>

(***************************************************************************)
(* C30.  When new builds appear in the provider's newest-first listing     *)
(* between two page requests of one fetch_builds call, the list the call   *)
(* returns still holds no build number twice and holds every build that    *)
(* was listed with a number above the threshold when the fetch began.      *)
(* Counterexample: page size 2, listing <<3, 2, 1>>; build 4 is listed     *)
(* after the first page (3, 2) was fetched; pages are addressed by         *)
(* position, page 2 of the new listing is (2, 1), and build 2 is returned  *)
(* a second time.                                                          *)
(***************************************************************************)
FetchCompleted == pc = "returned" /\ nWrites = 1

C30_GrowingListingGivesNoDuplicateAndNoGap ==
    FetchCompleted =>
        /\ NoDuplicates(builds)
        /\ \A i \in DOMAIN listing0 :
                listing0[i] > only_newer_than_build_number => listing0[i] \in Range(builds)

====
